---- MODULE Spec2Model ----
(***************************************************************************)
(* Model of the telemetry span pipeline of harness-tools                   *)
(* (packages/pi/extensions/opentelemetry): the configuration resolver,     *)
(* the span lifecycle controller, the rollup aggregator and the batched    *)
(* exporter; and of the backpressure runner                                *)
(* (packages/pi/extensions/auto-backpressure).                             *)
(*                                                                         *)
(* Conventions.  An optional value (T | undefined, T | null) is a sequence *)
(* of length at most one: None is <<>>, Some(v) is <<v>>.  A JavaScript    *)
(* string that the code inspects character by character is a sequence of   *)
(* one-character strings.  Random ids are fresh: a span id is the next      *)
(* integer, and a trace id, always drawn together with the span id of the  *)
(* root span of the trace, is that integer negated.                        *)
(***************************************************************************)
EXTENDS Integers, Sequences, FiniteSets, TLC

VARIABLES
    globalFile,            \* loadFileConfig(getGlobalSettingsPath()): None | Some(FileConfig)
    projectFile,           \* loadFileConfig(getProjectSettingsPath(cwd)): None | Some(FileConfig)
    globalSettings,        \* the global settings.json file, as found on disk
    projectSettings,       \* the project settings.json file, as found on disk
    env,                   \* process.env: the five PI_TELEMETRY_* variables
    fault,                 \* environment: what goes wrong when a batch is delivered
    config,                \* createConfigManager: let config
    projectConfigApplied,  \* createConfigManager: let projectConfigApplied
    registered,            \* whether opentelemetryExtension registered its handlers
    currentThreadSpan,     \* None | Some(Span)
    currentThreadRollup,   \* None | Some(PromptRollup)
    openTurns,             \* stack of [span, rollup]
    openToolSpans,         \* Map<toolCallId, [span, turnRollup]>, in insertion order
    capturedInput,         \* None | Some(the source of the input captured last)
    detachedRollups,       \* the rollups of the turns that left openTurns, by Turn
                           \* span id, each with the trace id of its thread: an
                           \* open-tool entry may still hold a reference to one
    spanBuffer,            \* exporter: spanBuffer (OTLP spans)
    flushTimer,            \* exporter: flushTimer !== null
    timers,                \* the timers set by setTimeout and neither fired nor cleared
                           \* yet, each named by the number of spans buffered so far
                           \* when it was set
    nextId,                \* the next fresh span id
    buffered,              \* history: every OTLP span passed to bufferSpan, in order
    drained,               \* history: every batch taken out of spanBuffer, with its path
                           \* and the delivery attempts made for it so far
    inflight,              \* asynchronous deliveries not yet settled (indexes of drained)
    hostErrors,            \* history: what escaped to the host process
    toolCallEvents,        \* history: per Turn span id, the tool-call events handled
                           \* while that turn was the most recently opened one
    matchedErrors,         \* history: per Thread span id, the tool-result events
                           \* with isError that found their entry in openToolSpans
                           \* while that thread was the current one
    lastEvent,             \* history: the event emitted last (see EventKinds)
    spanLimit,             \* how many spans a behaviour may create
    call,                  \* a call of a utility function: its name and arguments
    result,                \* None while the call is pending | Some(its return value)
    bpFile,                \* .pi/backpressure.json: None | Some(its parsed content)
    state,                 \* the BackpressureState of the backpressure extension
    worktree,              \* environment: per file, what git and the disk say of it
    lastCheck,             \* history: what the runBackpressureCheck that has just
                           \* returned did, with the context it was given, the
                           \* calls it was scheduled by and what happened to the
                           \* files meanwhile; NoCheck once anything else happened
    bpTimers,              \* the timers set by setTimeout in scheduleBackpressure
                           \* and neither fired nor cleared yet, by their handles
    burst,                 \* history: the contexts of the scheduleBackpressure
                           \* calls made since a debounce timer fired last
    bashEvents,            \* history: per call id, what git reported as dirty at
                           \* the bash tool_call awaiting its result; and the
                           \* bash tool_result that has just been handled
    hostInputs,            \* environment: the contexts, the bash call ids and the
                           \* tool names the host uses in the events of a
                           \* behaviour, and the files whose size changes with
                           \* their mtime unchanged
    ctxModel,              \* host: ctx.model, None | Some([provider, id])
    lastModel,             \* None | Some([provider, id]); currentModel is always
                           \* assigned together with it and holds the same value
    modelChanges           \* history: how often ctx.model went from one model to
                           \* another since the open thread was started

fnVars == <<call, result>>
bpVars == <<bpFile, state, worktree, lastCheck, bpTimers, burst, bashEvents,
           hostInputs>>
rawVars == <<globalSettings, projectSettings>>
envVars == <<globalFile, projectFile, rawVars, env, fault, spanLimit, fnVars,
             bpVars, ctxModel>>
cfgVars == <<envVars, config, projectConfigApplied>>
ctlVars == <<registered, currentThreadSpan, currentThreadRollup, openTurns,
             openToolSpans, capturedInput, detachedRollups, nextId, lastModel,
             modelChanges>>
expVars == <<spanBuffer, flushTimer, timers, buffered, drained, inflight,
             hostErrors>>
vars == <<cfgVars, ctlVars, expVars, toolCallEvents, matchedErrors, lastEvent>>

None == <<>>
Some(v) == <<v>>
IsNone(o) == o = <<>>
IsSome(o) == o # <<>>
Get(o) == o[1]

(***************************************************************************)
(* Strings                                                                 *)
(***************************************************************************)
StartsWith(s, p) == Len(s) >= Len(p) /\ SubSeq(s, 1, Len(p)) = p
Slice(s, n) == SubSeq(s, n + 1, Len(s))

StrNone == <<"n", "o", "n", "e">>
FilePrefix == <<"f", "i", "l", "e", ":", "/", "/">>
UnixPrefix == <<"u", "n", "i", "x", ":", "/", "/">>
HttpPrefix == <<"h", "t", "t", "p", ":", "/", "/">>
HttpsPrefix == <<"h", "t", "t", "p", "s", ":", "/", "/">>

\* "~/.pi/agent/telemetry", shortened to "~/t"
DEFAULT_TELEMETRY_DIR == <<"~", "/", "t">>
\* homedir(), shortened to "/h"
HomeDir == <<"/", "h">>

DefaultBatchSize == 10
DefaultFlushIntervalMs == 5000

expandPath_Identity(p) == p

\* join(homedir(), p.slice(1)), for paths without ".", ".." or "//"
expandPath(p) ==
    IF StartsWith(p, <<"~">>)
    THEN LET rest == Slice(p, 1) IN
         IF rest = <<>> THEN HomeDir
         ELSE IF rest[1] = "/" THEN HomeDir \o rest
         ELSE HomeDir \o <<"/">> \o rest
    ELSE p

getDefaultFileDestination ==
    [type |-> "file", dir |-> expandPath(DEFAULT_TELEMETRY_DIR)]

\* value: None | Some(string)
parseDestination(value) ==
    IF IsNone(value) \/ value = Some(<<>>) THEN getDefaultFileDestination
    ELSE LET v == Get(value) IN
        IF v = StrNone THEN [type |-> "none"]
        ELSE IF StartsWith(v, FilePrefix) THEN
            LET dir == Slice(v, 7) IN
            [type |-> "file",
             dir |-> expandPath(IF dir = <<>> THEN DEFAULT_TELEMETRY_DIR ELSE dir)]
        ELSE IF StartsWith(v, UnixPrefix) THEN
            LET socketPath == Slice(v, 7) IN
            IF socketPath = <<>> THEN getDefaultFileDestination
            ELSE [type |-> "unix", path |-> socketPath]
        ELSE IF StartsWith(v, HttpPrefix) \/ StartsWith(v, HttpsPrefix) THEN
            [type |-> "http", url |-> v, headers |-> None, timeout |-> None]
        ELSE [type |-> "file", dir |-> expandPath(v)]

(***************************************************************************)
(* Environment variables.  PI_TELEMETRY_HEADERS is held as the list of its *)
(* comma-separated pairs, each already split at "=" into key and val       *)
(* (val is None when the pair has no "=").                                 *)
(***************************************************************************)
RECURSIVE HeadersOfPairs(_)
HeadersOfPairs(pairs) ==
    IF pairs = <<>> THEN <<>>
    ELSE LET pair == Head(pairs)
             rest == HeadersOfPairs(Tail(pairs))
             ok == pair.key # "" /\ IsSome(pair.val) /\ pair.val # Some("")
         IN IF ok /\ ~(\E i \in 1..Len(rest) : rest[i].key = pair.key)
            THEN <<[key |-> pair.key, val |-> Get(pair.val)]>> \o rest
            ELSE rest

\* value: None | Some(list of pairs); result: None | Some(headers)
parseHeadersFromEnv(value) ==
    IF IsNone(value) \/ value = Some(<<>>) THEN None
    ELSE LET headers == HeadersOfPairs(Get(value)) IN
         IF Len(headers) > 0 THEN Some(headers) ELSE None

Digits == <<"0", "1", "2", "3", "4", "5", "6", "7", "8", "9">>
IsDigit(c) == \E i \in 1..10 : Digits[i] = c
DigitValue(c) == (CHOOSE i \in 1..10 : Digits[i] = c) - 1

RECURSIVE DecimalValue(_)
DecimalValue(s) ==
    IF s = <<>> THEN 0
    ELSE 10 * DecimalValue(SubSeq(s, 1, Len(s) - 1)) + DigitValue(s[Len(s)])

\* Number(process.env[...]): None is NaN.  value: None | Some(string)
ToNumber(value) ==
    IF IsNone(value) THEN None
    ELSE LET s == Get(value) IN
        IF s = <<>> THEN Some(0)
        ELSE IF \A i \in 1..Len(s) : IsDigit(s[i]) THEN Some(DecimalValue(s))
        ELSE IF s[1] = "-" /\ Len(s) > 1 /\ \A i \in 2..Len(s) : IsDigit(s[i])
             THEN Some(0 - DecimalValue(Slice(s, 1)))
        ELSE None

Positive(n) == IsSome(n) /\ Get(n) > 0

(***************************************************************************)
(* Layered merge                                                           *)
(***************************************************************************)
mergeFileConfig(base, fileConfig) ==
    LET dest0 == IF IsSome(fileConfig.export)
                 THEN parseDestination(fileConfig.export)
                 ELSE base.destination
        dest1 == IF dest0.type = "http" /\ IsSome(fileConfig.headers)
                 THEN [dest0 EXCEPT !.headers = fileConfig.headers]
                 ELSE dest0
        dest2 == IF dest1.type = "http" /\ Positive(fileConfig.timeout)
                 THEN [dest1 EXCEPT !.timeout = fileConfig.timeout]
                 ELSE dest1
    IN [destination |-> dest2,
        batchSize |-> IF Positive(fileConfig.batchSize)
                      THEN Get(fileConfig.batchSize) ELSE base.batchSize,
        flushIntervalMs |-> IF Positive(fileConfig.flushIntervalMs)
                            THEN Get(fileConfig.flushIntervalMs)
                            ELSE base.flushIntervalMs]

\* faulty variant: the environment is ignored
applyEnvOverrides_Ignored(base, e) == base

applyEnvOverrides(base, e) ==
    LET dest0 == IF IsSome(e.EXPORT) /\ e.EXPORT # Some(<<>>)
                 THEN parseDestination(e.EXPORT)
                 ELSE base.destination
        headersEnv == parseHeadersFromEnv(e.HEADERS)
        dest1 == IF dest0.type = "http" /\ IsSome(headersEnv)
                 THEN [dest0 EXCEPT !.headers = headersEnv]
                 ELSE dest0
        timeoutEnv == ToNumber(e.TIMEOUT)
        dest2 == IF dest1.type = "http" /\ Positive(timeoutEnv)
                 THEN [dest1 EXCEPT !.timeout = timeoutEnv]
                 ELSE dest1
        batchSizeEnv == ToNumber(e.BATCH_SIZE)
        flushIntervalEnv == ToNumber(e.FLUSH_INTERVAL)
    IN [destination |-> dest2,
        batchSize |-> IF Positive(batchSizeEnv)
                      THEN Get(batchSizeEnv) ELSE base.batchSize,
        flushIntervalMs |-> IF Positive(flushIntervalEnv)
                            THEN Get(flushIntervalEnv) ELSE base.flushIntervalMs]

DefaultConfig ==
    [destination |-> getDefaultFileDestination,
     batchSize |-> DefaultBatchSize,
     flushIntervalMs |-> DefaultFlushIntervalMs]

loadInitialConfig(g, e) ==
    LET c1 == IF IsSome(g) THEN mergeFileConfig(DefaultConfig, Get(g))
              ELSE DefaultConfig
    IN applyEnvOverrides(c1, e)

\* the configuration applyProjectConfig builds when the project file is valid
RebuiltConfig(g, p, e) ==
    LET c1 == IF IsSome(g) THEN mergeFileConfig(DefaultConfig, Get(g))
              ELSE DefaultConfig
        c2 == mergeFileConfig(c1, p)
    IN applyEnvOverrides(c2, e)

\* createConfigManager.applyProjectConfig, as the pair of new values
applyProjectConfig(cfg, applied, g, p, e) ==
    IF applied THEN [config |-> cfg, applied |-> applied]
    ELSE [config |-> IF IsSome(p) THEN RebuiltConfig(g, Get(p), e) ELSE cfg,
          applied |-> TRUE]

(***************************************************************************)
(* Bounds and inputs                                                       *)
(***************************************************************************)
MaxSpans == 3

CallIds == {"c1", "c2"}
ToolNames == {"bash"}
SwitchReasons == {"new", "resume"}
\* event.source of an input event
InputSources == {"interactive", "rpc"}
\* tool_result payloads, by the JavaScript type of input, content and details
Payload(input, content, details) ==
    [input |-> input, content |-> content, details |-> details]
WellFormed == Payload("object", "array", "object")
Payloads ==
    {WellFormed,
     Payload("undefined", "array", "object"),
     Payload("object", "undefined", "object"),
     Payload("object", "array", "undefined")}

(***************************************************************************)
(* Spans and rollups                                                       *)
(***************************************************************************)
NoAttributes == [k \in {} |-> 0]
SetAttr(attrs, k, v) ==
    [x \in DOMAIN attrs \cup {k} |-> IF x = k THEN v ELSE attrs[x]]
HasAttr(attrs, k) == k \in DOMAIN attrs

\* faulty variant: every trace gets the same id
genTraceId_Fixed(spanId) == 0

\* genTraceId(), drawn together with the fresh span id of a root span
genTraceId(spanId) == 0 - spanId

\* faulty variant: the parent is not recorded
createSpan_NoParent(name, parentSpanId, traceId, spanId) ==
    [traceId |-> traceId, spanId |-> spanId, parentSpanId |-> None,
     name |-> name, kind |-> "internal", status |-> "unset",
     links |-> <<>>, attributes |-> NoAttributes]

\* createSpan, given the fresh span id to use; parentSpanId: None | Some(id)
createSpan(name, parentSpanId, traceId, spanId) ==
    [traceId |-> traceId, spanId |-> spanId, parentSpanId |-> parentSpanId,
     name |-> name, kind |-> "internal", status |-> "unset",
     links |-> <<>>, attributes |-> NoAttributes]

createPromptRollup ==
    [turnCount |-> 0, toolCount |-> 0, toolErrorCount |-> 0,
     toolCounts |-> NoAttributes, modelSwitchCount |-> 0]

createTurnRollup ==
    [toolCount |-> 0, toolErrorCount |-> 0, toolCounts |-> NoAttributes]

incrementMap(map, key) ==
    SetAttr(map, key, (IF key \in DOMAIN map THEN map[key] ELSE 0) + 1)

\* faulty variant: the span keeps the attributes it had
applyPromptRollupToSpan_Stale(span, rollup) == span

applyPromptRollupToSpan(span, rollup) ==
    [span EXCEPT !.attributes =
        SetAttr(SetAttr(SetAttr(SetAttr(@, "turn.count", rollup.turnCount),
                                "tool.count", rollup.toolCount),
                        "tool.error_count", rollup.toolErrorCount),
                "model.switch_count", rollup.modelSwitchCount)]

applyTurnRollupToSpan(span, rollup) ==
    [span EXCEPT !.attributes =
        SetAttr(SetAttr(@, "turn.tool.count", rollup.toolCount),
                "turn.tool.error_count", rollup.toolErrorCount)]

\* the first letter in upper case, tabulated for the tool names in use
formatToolSpanName(toolName) ==
    CASE toolName = "" -> "Tool"
      [] toolName = "bash" -> "Bash"
      [] toolName = "read" -> "Read"

(***************************************************************************)
(* Exporter.  The exporter's state is threaded through the operators as a  *)
(* record, because one handler may call endSpan several times.             *)
(***************************************************************************)
BoolKeys == {"error", "aborted", "main"}
StringKeys == {"status", "tool.name", "tool.call_id", "input.source",
               "model.provider", "model.id", "tool.model.provider",
               "tool.model.id"}

\* String(n) of an integer
RECURSIVE NumberToString(_)
NumberToString(n) ==
    IF n < 0 THEN <<"-">> \o NumberToString(0 - n)
    ELSE IF n < 10 THEN <<Digits[n + 1]>>
    ELSE NumberToString(n \div 10) \o <<Digits[(n % 10) + 1]>>

\* toAttributes: typeof value, known here from the key; numbers are integers
TypedValue(k, v) ==
    IF k \in StringKeys THEN [stringValue |-> v]
    ELSE IF k \in BoolKeys THEN [boolValue |-> v]
    ELSE [intValue |-> NumberToString(v)]

StatusCode(status) ==
    CASE status = "unset" -> 0 [] status = "ok" -> 1 [] status = "error" -> 2

spanToOTLP(span) ==
    [traceId |-> span.traceId, spanId |-> span.spanId,
     parentSpanId |-> span.parentSpanId, name |-> span.name, kind |-> 1,
     status |-> [code |-> StatusCode(span.status)],
     attributes |-> [k \in DOMAIN span.attributes |->
                        TypedValue(k, span.attributes[k])],
     links |-> [i \in 1..Len(span.links) |->
                  [traceId |-> span.links[i].traceId,
                   spanId |-> span.links[i].spanId,
                   attributes |-> [k \in DOMAIN span.links[i].attributes |->
                                      [stringValue |-> span.links[i].attributes[k]]]]]]

Exporter ==
    [spanBuffer |-> spanBuffer, flushTimer |-> flushTimer, timers |-> timers,
     buffered |-> buffered, drained |-> drained, inflight |-> inflight]

\* if (flushTimer !== null) { clearTimeout(flushTimer); flushTimer = null; }
\* flushTimer holds the handle of the timer set last
clearFlushTimer(ex) ==
    IF ex.flushTimer
    THEN [ex EXCEPT !.flushTimer = FALSE,
                    !.timers = @ \ {t \in @ : \A u \in @ : u <= t}]
    ELSE ex

SpanIdsOf(batch) == [i \in 1..Len(batch) |-> batch[i].spanId]

\* the attempts exportBatch and exportBatchSync make to deliver one batch,
\* whether the attempt succeeds or fails: one write to the file, one POST
\* (fetch, curl) or one connection to the socket; none for "none"
deliveryAttempts(destType) == IF destType = "none" THEN 0 ELSE 1

\* faulty variant: the batch is copied, not taken, out of the queue
flush_Copy(ex, cfg) ==
    IF ex.spanBuffer = <<>> THEN clearFlushTimer(ex)
    ELSE [clearFlushTimer(ex) EXCEPT
                    !.drained = Append(@, [path |-> "async",
                                           dest |-> cfg.destination.type,
                                           spans |-> SpanIdsOf(ex.spanBuffer),
                                           attempts |-> 0]),
                    !.inflight = IF cfg.destination.type = "none" THEN @
                                 ELSE @ \cup {Len(ex.drained) + 1}]

\* flush(): the drain, and exportBatch(batch) started with its .catch attached
flush(ex, cfg) ==
    IF ex.spanBuffer = <<>> THEN clearFlushTimer(ex)
    ELSE [clearFlushTimer(ex) EXCEPT
                    !.spanBuffer = <<>>,
                    !.drained = Append(@, [path |-> "async",
                                           dest |-> cfg.destination.type,
                                           spans |-> SpanIdsOf(ex.spanBuffer),
                                           attempts |-> 0]),
                    !.inflight = IF cfg.destination.type = "none" THEN @
                                 ELSE @ \cup {Len(ex.drained) + 1}]

\* faulty variant: no timer is set
scheduleFlush_Never(ex) == ex

\* faulty variant: a timer is set whether or not one is pending
scheduleFlush_Again(ex) ==
    [ex EXCEPT !.flushTimer = TRUE, !.timers = @ \cup {Len(ex.buffered)}]

scheduleFlush(ex) ==
    IF ex.flushTimer THEN ex
    ELSE [ex EXCEPT !.flushTimer = TRUE, !.timers = @ \cup {Len(ex.buffered)}]

bufferSpan(ex, span, cfg) ==
    LET otlp == spanToOTLP(span)
        ex1 == [ex EXCEPT !.spanBuffer = Append(@, otlp),
                          !.buffered = Append(@, otlp)]
    IN IF Len(ex1.spanBuffer) >= cfg.batchSize THEN flush(ex1, cfg)
       ELSE scheduleFlush(ex1)

\* faulty variant: the pending flush timer is left running
flushSync_TimerKept(ex, cfg) ==
    IF ex.spanBuffer = <<>> THEN ex
    ELSE [ex EXCEPT !.spanBuffer = <<>>,
                    !.drained = Append(@, [path |-> "sync",
                                           dest |-> cfg.destination.type,
                                           spans |-> SpanIdsOf(ex.spanBuffer),
                                           attempts |->
                                               deliveryAttempts(cfg.destination.type)])]

\* flushSync(): the drain; exportBatchSync delivers before it returns
flushSync(ex, cfg) ==
    IF ex.spanBuffer = <<>> THEN clearFlushTimer(ex)
    ELSE [clearFlushTimer(ex) EXCEPT
                    !.spanBuffer = <<>>,
                    !.drained = Append(@, [path |-> "sync",
                                           dest |-> cfg.destination.type,
                                           spans |-> SpanIdsOf(ex.spanBuffer),
                                           attempts |->
                                               deliveryAttempts(cfg.destination.type)])]

endSpan(ex, span, status, cfg) ==
    LET closed == [span EXCEPT !.status = status,
                               !.attributes = IF status = "error"
                                              THEN SetAttr(@, "error", TRUE)
                                              ELSE @]
    IN bufferSpan(ex, closed, cfg)

RECURSIVE EndTurns(_, _, _)
EndTurns(ex, turns, cfg) ==
    IF turns = <<>> THEN ex
    ELSE EndTurns(endSpan(ex, applyTurnRollupToSpan(Head(turns).span,
                                                    Head(turns).rollup),
                          "error", cfg),
                  Tail(turns), cfg)

\* faulty variant: the open tool spans are dropped
EndTools_Skip(ex, tools, cfg) == ex

RECURSIVE EndTools(_, _, _)
EndTools(ex, tools, cfg) ==
    IF tools = <<>> THEN ex
    ELSE EndTools(endSpan(ex, Head(tools).span, "error", cfg), Tail(tools), cfg)

(***************************************************************************)
(* Delivery.  exportBatch is an async function: what it throws rejects its *)
(* promise.  A socket reports a failed connection later, as an "error"     *)
(* event; an "error" event nobody listens to is thrown in the host.        *)
(***************************************************************************)
ApplicableFailures(destType) ==
    CASE destType = "file" -> {"none", "write_error"}
      [] destType = "http" -> {"none", "refused", "timeout", "malformed_response"}
      [] destType = "unix" -> {"none", "refused"}
      [] OTHER -> {"none"}

exportBatch(destType, failure) ==
    CASE destType = "file" ->
            [promise |-> IF failure = "write_error" THEN "rejected" ELSE "resolved",
             errorEvent |-> FALSE]
      [] destType = "http" ->
            [promise |-> IF failure \in {"refused", "timeout"}
                         THEN "rejected" ELSE "resolved",
             errorEvent |-> FALSE]
      [] destType = "unix" ->
            [promise |-> "resolved", errorEvent |-> failure = "refused"]
      [] OTHER -> [promise |-> "resolved", errorEvent |-> FALSE]

\* faulty variant: the promise of exportBatch without its .catch
FlushCatch_Missing(promise) ==
    IF promise = "rejected" THEN {"unhandledRejection"} ELSE {}

\* exportBatch(batch).catch(() => {}): what of the promise reaches the host
FlushCatch(promise) == {}

\* net.createConnection(path) without an "error" listener
SocketErrorEvent(errorEvent) ==
    IF errorEvent THEN {"uncaughtException"} ELSE {}

\* exportBatchSync: every branch runs inside try/catch
exportBatchSync(destType, failure) == {}

(***************************************************************************)
(* Lifecycle controller                                                    *)
(***************************************************************************)
SpanIdsOfEntries(entries) == [i \in 1..Len(entries) |-> entries[i].span.spanId]

\* lastEvent after a handler: the event when it was a thread-begin (a session
\* switch with its reason), a shutdown, an end event with nothing to match, or a
\* tool_result of an open call with a malformed payload; "other" otherwise
ThreadBeginEvents ==
    {"session_start", "session_switch_new", "session_switch_resume",
     "session_fork", "session_tree"}
EventKinds ==
    ThreadBeginEvents \cup {"session_shutdown", "turn_end_unmatched",
                            "tool_result_unmatched", "tool_result_malformed",
                            "other"}
Other == "other"

\* modelKey: `${provider}/${id}`
modelKey(provider, id) == provider \o <<"/">> \o id

\* span.attributes[prefix + "provider"] and [prefix + "id"] when a model is known
ModelAttributes(span, providerKey, idKey, model) ==
    IF IsSome(model)
    THEN [span EXCEPT !.attributes =
             SetAttr(SetAttr(@, providerKey, Get(model).provider),
                     idKey, Get(model).id)]
    ELSE span

\* startThread: the new Thread span; link: None | Some(ThreadLinkInfo)
startThread(link, spanId) ==
    LET span == createSpan("Thread", None, genTraceId(spanId), spanId)
        linked == IF IsSome(link)
                  THEN [span EXCEPT !.links =
                            <<[traceId |-> Get(link).traceId,
                               spanId |-> Get(link).spanId,
                               attributes |-> [k \in {"link.relation"} |->
                                                  Get(link).relation]]>>]
                  ELSE span
    IN ModelAttributes([linked EXCEPT !.attributes = SetAttr(@, "main", TRUE)],
                       "model.provider", "model.id", ctxModel)

\* endThread: the exporter afterwards and the context returned
endThread(status, thread, rollup, turns, tools, ex, cfg) ==
    IF IsNone(thread) \/ IsNone(rollup)
    THEN [ex |-> ex, context |-> None, thread |-> thread, rollup |-> rollup]
    ELSE LET ex1 == EndTurns(ex, turns, cfg)
             ex2 == EndTools(ex1, tools, cfg)
             folded == applyPromptRollupToSpan(Get(thread), Get(rollup))
             span == [folded EXCEPT !.attributes = SetAttr(@, "status", status)]
         IN [ex |-> endSpan(ex2, span, status, cfg),
             context |-> Some([traceId |-> span.traceId, spanId |-> span.spanId]),
             thread |-> None, rollup |-> None]

SetExporter(ex) ==
    /\ spanBuffer' = ex.spanBuffer
    /\ flushTimer' = ex.flushTimer
    /\ timers' = ex.timers
    /\ buffered' = ex.buffered
    /\ drained' = ex.drained
    /\ inflight' = ex.inflight

\* the link a thread-begin asks for, given what endThread returned
LinkFor(previousThread, relation) ==
    IF IsSome(previousThread) /\ IsSome(relation)
    THEN Some([traceId |-> Get(previousThread).traceId,
               spanId |-> Get(previousThread).spanId,
               relation |-> Get(relation)])
    ELSE None

\* faulty variant: every switch is linked as a resume
SwitchRelation_AlwaysResume(reason) == Some("resume")

\* session_switch: only a resume is linked
SwitchRelation(reason) == IF reason = "resume" THEN Some("resume") ELSE None

\* the turns that leave the stack: their rollup objects stay where an open-tool
\* entry can reach them
Detach(turns, turns1, detached) ==
    LET remaining == {turns1[i].span.spanId : i \in 1..Len(turns1)}
        leaving == {i \in 1..Len(turns) : turns[i].span.spanId \notin remaining}
    IN [id \in DOMAIN detached \cup {turns[i].span.spanId : i \in leaving} |->
           IF id \in DOMAIN detached THEN detached[id]
           ELSE LET turn == turns[CHOOSE i \in leaving : turns[i].span.spanId = id]
                IN [owner |-> turn.span.traceId, rollup |-> turn.rollup]]

\* session_start, as the host emits it: the handler runs only if
\* opentelemetryExtension registered it
SessionStart ==
    IF registered
    THEN /\ nextId <= spanLimit
         /\ LET r == applyProjectConfig(config, projectConfigApplied,
                                        globalFile, projectFile, env)
            IN /\ config' = r.config
               /\ projectConfigApplied' = r.applied
         /\ currentThreadSpan' = Some(startThread(None, nextId))
         /\ currentThreadRollup' = Some(createPromptRollup)
         /\ openTurns' = <<>>
         /\ detachedRollups' = Detach(openTurns, <<>>, detachedRollups)
         /\ nextId' = nextId + 1
         /\ lastModel' = ctxModel
         /\ modelChanges' = 0
         /\ lastEvent' = "session_start"
         /\ UNCHANGED <<envVars, registered, openToolSpans, capturedInput,
                        expVars, toolCallEvents, matchedErrors>>
    ELSE /\ lastEvent' = "session_start"
         /\ UNCHANGED <<cfgVars, ctlVars, expVars, toolCallEvents, matchedErrors>>

\* session_switch, session_fork and session_tree share endThread / startThread;
\* fork and tree also emit a session event span of its own trace
ThreadBegin(event, relation, eventSpanName) ==
    /\ registered
    /\ nextId + (IF IsSome(eventSpanName) THEN 1 ELSE 0) <= spanLimit
    /\ LET ended == endThread("ok", currentThreadSpan, currentThreadRollup,
                              openTurns, openToolSpans, Exporter, config)
           link == LinkFor(ended.context, relation)
           eventSpan == createSpan(Get(eventSpanName), None,
                                   genTraceId(nextId + 1), nextId + 1)
       IN /\ currentThreadSpan' = Some(startThread(link, nextId))
          /\ SetExporter(IF IsSome(eventSpanName)
                         THEN endSpan(ended.ex, eventSpan, "ok", config)
                         ELSE ended.ex)
    /\ currentThreadRollup' = Some(createPromptRollup)
    /\ openTurns' = <<>>
    /\ openToolSpans' = <<>>
    /\ detachedRollups' = Detach(openTurns, <<>>, detachedRollups)
    /\ capturedInput' = None
    /\ nextId' = nextId + (IF IsSome(eventSpanName) THEN 2 ELSE 1)
    /\ lastModel' = ctxModel
    /\ modelChanges' = 0
    /\ lastEvent' = event
    /\ UNCHANGED <<cfgVars, registered, hostErrors, toolCallEvents, matchedErrors>>

SessionSwitch ==
    \E reason \in SwitchReasons :
        ThreadBegin(IF reason = "resume" THEN "session_switch_resume"
                    ELSE "session_switch_new",
                    SwitchRelation(reason), None)

SessionFork == ThreadBegin("session_fork", Some("fork"), Some("session.fork"))

SessionTree == ThreadBegin("session_tree", Some("tree"), Some("session.tree"))

\* input: the input is kept for the next agent_start
Input ==
    /\ registered
    /\ \E source \in InputSources : capturedInput' = Some(source)
    /\ lastEvent' = Other
    /\ UNCHANGED <<cfgVars, registered, currentThreadSpan, currentThreadRollup,
                   openTurns, openToolSpans, detachedRollups, nextId, lastModel,
                   modelChanges, expVars, toolCallEvents, matchedErrors>>

\* faulty variant: the Input span does not carry the captured input
InputSpan_Stale(thread, input, spanId) ==
    [createSpan("Input", Some(thread.spanId), thread.traceId, spanId)
        EXCEPT !.attributes = SetAttr(@, "input.source", "interactive")]

\* the Input span of agent_start, a child of the Thread span
InputSpan(thread, input, spanId) ==
    [createSpan("Input", Some(thread.spanId), thread.traceId, spanId)
        EXCEPT !.attributes = SetAttr(@, "input.source", input)]

\* agent_start: a thread is started when none is open, and the captured input
\* becomes an Input span, closed at once
AgentStart ==
    /\ registered
    /\ LET starts == IsNone(currentThreadSpan) \/ IsNone(currentThreadRollup)
           thread == IF starts THEN startThread(None, nextId)
                     ELSE Get(currentThreadSpan)
           inputId == IF starts THEN nextId + 1 ELSE nextId
           created == (IF starts THEN 1 ELSE 0)
                      + (IF IsSome(capturedInput) THEN 1 ELSE 0)
           inputSpan == InputSpan(thread, Get(capturedInput), inputId)
       IN /\ nextId + created <= spanLimit + 1
          /\ IF starts
             THEN /\ currentThreadSpan' = Some(thread)
                  /\ currentThreadRollup' = Some(createPromptRollup)
                  /\ openTurns' = <<>>
                  /\ detachedRollups' = Detach(openTurns, <<>>, detachedRollups)
                  /\ lastModel' = ctxModel
                  /\ modelChanges' = 0
             ELSE /\ IF IsSome(ctxModel)
                        /\ ~HasAttr(thread.attributes, "model.provider")
                     THEN /\ currentThreadSpan' =
                                 Some(ModelAttributes(thread, "model.provider",
                                                      "model.id", ctxModel))
                          /\ lastModel' = ctxModel
                     ELSE UNCHANGED <<currentThreadSpan, lastModel>>
                  /\ UNCHANGED <<currentThreadRollup, openTurns, detachedRollups,
                                 modelChanges>>
          /\ nextId' = nextId + created
          /\ IF IsSome(capturedInput)
             THEN SetExporter(endSpan(Exporter, inputSpan, "ok", config))
             ELSE UNCHANGED <<spanBuffer, flushTimer, timers, buffered, drained,
                              inflight>>
    /\ capturedInput' = None
    /\ lastEvent' = Other
    /\ UNCHANGED <<cfgVars, registered, openToolSpans, hostErrors, toolCallEvents, matchedErrors>>

\* agent_end: folds the rollup onto the Thread span and flushes (the messages
\* of the event carry no "aborted" stop reason)
AgentEnd ==
    /\ registered
    /\ IF IsNone(currentThreadSpan) \/ IsNone(currentThreadRollup)
       THEN UNCHANGED <<currentThreadSpan, capturedInput, expVars>>
       ELSE LET span == Get(currentThreadSpan)
                s1 == [span EXCEPT !.attributes = SetAttr(@, "aborted", FALSE)]
                s2 == applyPromptRollupToSpan(s1, Get(currentThreadRollup))
                s3 == [s2 EXCEPT !.attributes = SetAttr(@, "status", "ok")]
            IN /\ currentThreadSpan' = Some(s3)
               /\ capturedInput' = None
               /\ SetExporter(flush(Exporter, config))
               /\ UNCHANGED hostErrors
    /\ lastEvent' = Other
    /\ UNCHANGED <<cfgVars, registered, currentThreadRollup, openTurns,
                   openToolSpans, detachedRollups, nextId, lastModel,
                   modelChanges, toolCallEvents, matchedErrors>>

TurnStart ==
    /\ registered
    /\ IF IsNone(currentThreadSpan) \/ IsNone(currentThreadRollup)
       THEN UNCHANGED <<currentThreadRollup, openTurns, nextId, toolCallEvents,
                        lastModel>>
       ELSE /\ nextId <= spanLimit
            /\ lastModel' = IF IsSome(ctxModel) THEN ctxModel ELSE lastModel
            /\ LET thread == Get(currentThreadSpan)
                   turnSpan == createSpan("Turn", Some(thread.spanId),
                                          thread.traceId, nextId)
               IN openTurns' =
                      Append(openTurns,
                             [span |-> ModelAttributes(turnSpan, "model.provider",
                                                       "model.id", lastModel'),
                              rollup |-> createTurnRollup])
            /\ currentThreadRollup' =
                   Some([Get(currentThreadRollup) EXCEPT
                            !.turnCount = @ + 1,
                            !.modelSwitchCount =
                                IF /\ IsSome(ctxModel)
                                   /\ IsSome(lastModel)
                                   /\ \/ Get(lastModel).provider # Get(ctxModel).provider
                                      \/ Get(lastModel).id # Get(ctxModel).id
                                THEN @ + 1 ELSE @])
            /\ nextId' = nextId + 1
            /\ toolCallEvents' = SetAttr(toolCallEvents, nextId, 0)
    /\ lastEvent' = Other
    /\ UNCHANGED <<cfgVars, registered, currentThreadSpan, openToolSpans,
                   capturedInput, detachedRollups, modelChanges, expVars,
                   matchedErrors>>

\* the guard of turn_end: there is a turn to pop
TurnEndApplies == Len(openTurns) # 0 /\ IsSome(currentThreadRollup)

\* openTurns.pop(): None for undefined
Pop(turns) == IF turns = <<>> THEN None ELSE Some(turns[Len(turns)])

TurnEnd ==
    /\ registered
    /\ IF ~TurnEndApplies \/ IsNone(Pop(openTurns))
       THEN UNCHANGED <<openTurns, detachedRollups, expVars>>
       ELSE LET turnEntry == Get(Pop(openTurns))
                span == applyTurnRollupToSpan(turnEntry.span, turnEntry.rollup)
            IN /\ openTurns' = SubSeq(openTurns, 1, Len(openTurns) - 1)
               /\ detachedRollups' = Detach(openTurns, openTurns', detachedRollups)
               /\ SetExporter(endSpan(Exporter, span, "ok", config))
               /\ UNCHANGED hostErrors
    /\ lastEvent' = IF openTurns = <<>> THEN "turn_end_unmatched" ELSE Other
    /\ UNCHANGED <<cfgVars, registered, currentThreadSpan, currentThreadRollup,
                   openToolSpans, capturedInput, nextId, lastModel, modelChanges,
                   toolCallEvents, matchedErrors>>

(***************************************************************************)
(* The open-tool table: a Map, which keeps insertion order                 *)
(***************************************************************************)
MapHas(m, callId) == \E i \in 1..Len(m) : m[i].callId = callId
\* faulty variant: a lookup that falls back to the newest entry
MapGet_AnyEntry(m, callId) ==
    IF m = <<>> THEN None ELSE Some(m[Len(m)])

\* Map.get: None for undefined
MapGet(m, callId) ==
    IF \E i \in 1..Len(m) : m[i].callId = callId
    THEN Some(m[CHOOSE i \in 1..Len(m) : m[i].callId = callId])
    ELSE None
MapSet(m, entry) ==
    IF MapHas(m, entry.callId)
    THEN [i \in 1..Len(m) |-> IF m[i].callId = entry.callId THEN entry ELSE m[i]]
    ELSE Append(m, entry)
\* faulty variant: the entry stays in the table
MapDelete_Kept(m, callId) == m

MapDelete(m, callId) ==
    LET keep == {i \in 1..Len(m) : m[i].callId # callId}
        Pick[n \in 0..Len(m)] ==
            IF n = 0 THEN <<>>
            ELSE IF n \in keep THEN Append(Pick[n - 1], m[n]) ELSE Pick[n - 1]
    IN Pick[Len(m)]

\* tool_call: the increments of the thread rollup and of the turn rollup
ThreadRollupToolCall(rollup, toolName) ==
    [rollup EXCEPT !.toolCount = @ + 1,
                   !.toolCounts = incrementMap(@, toolName)]

\* faulty variant: the turn rollup misses the call
TurnRollupToolCall_NoCount(rollup, toolName) == rollup

TurnRollupToolCall(rollup, toolName) ==
    [rollup EXCEPT !.toolCount = @ + 1,
                   !.toolCounts = incrementMap(@, toolName)]

ToolCall ==
    /\ registered
    /\ \E callId \in CallIds, toolName \in ToolNames :
        IF IsNone(Pop(openTurns))
        THEN UNCHANGED <<currentThreadRollup, openTurns, openToolSpans, nextId,
                         toolCallEvents>>
        ELSE /\ nextId <= spanLimit
             /\ LET activeTurn == Get(Pop(openTurns))
                    span == createSpan(formatToolSpanName(toolName),
                                       Some(activeTurn.span.spanId),
                                       activeTurn.span.traceId, nextId)
                    named == [span EXCEPT !.attributes =
                                 SetAttr(SetAttr(@, "tool.name", toolName),
                                         "tool.call_id", callId)]
                    toolSpan == ModelAttributes(named, "tool.model.provider",
                                                "tool.model.id", lastModel)
                IN /\ openToolSpans' =
                          MapSet(openToolSpans,
                                 [callId |-> callId, span |-> toolSpan,
                                  turnRollup |-> activeTurn.span.spanId])
                   /\ toolCallEvents' =
                          incrementMap(toolCallEvents, activeTurn.span.spanId)
             /\ currentThreadRollup' =
                    IF IsSome(currentThreadRollup)
                    THEN Some(ThreadRollupToolCall(Get(currentThreadRollup), toolName))
                    ELSE currentThreadRollup
             /\ openTurns' = [openTurns EXCEPT ![Len(openTurns)].rollup =
                                  TurnRollupToolCall(@, toolName)]
             /\ nextId' = nextId + 1
    /\ lastEvent' = Other
    /\ UNCHANGED <<cfgVars, registered, currentThreadSpan, capturedInput,
                   detachedRollups, lastModel, modelChanges, expVars,
                   matchedErrors>>

\* addToolSpanAttributes raises a TypeError at JSON.stringify(input).length when
\* input is undefined and at content.find when content is no array
addToolSpanAttributesThrows(payload) ==
    payload.input = "undefined" \/ payload.content # "array"

\* addToolSpanAttributes when it returns: "{}".length for the input
addToolSpanAttributes(span) ==
    [span EXCEPT !.attributes = SetAttr(@, "tool.input_length", 2)]

\* tool_result: the error increment reaches the turn rollup through the entry
TurnsAfterToolResult(turns, turnId, isError) ==
    [i \in 1..Len(turns) |->
        IF turns[i].span.spanId = turnId /\ isError
        THEN [turns[i] EXCEPT !.rollup.toolErrorCount = @ + 1]
        ELSE turns[i]]

\* the same increment, when the turn of the entry has left openTurns
DetachedAfterToolResult(detached, turnId, isError) ==
    [id \in DOMAIN detached |->
        IF id = turnId /\ isError
        THEN [detached[id] EXCEPT !.rollup.toolErrorCount = @ + 1]
        ELSE detached[id]]

ToolResult ==
    /\ registered
    /\ \E callId \in CallIds, isError \in BOOLEAN, payload \in Payloads :
        /\ lastEvent' = IF ~MapHas(openToolSpans, callId)
                        THEN "tool_result_unmatched"
                        ELSE IF payload # WellFormed THEN "tool_result_malformed"
                        ELSE Other
        /\ matchedErrors' =
               IF MapHas(openToolSpans, callId) /\ isError
                  /\ IsSome(currentThreadSpan)
               THEN incrementMap(matchedErrors, Get(currentThreadSpan).spanId)
               ELSE matchedErrors
        /\ IF IsNone(MapGet(openToolSpans, callId))
           THEN UNCHANGED <<currentThreadRollup, openTurns, openToolSpans,
                            detachedRollups, expVars>>
           ELSE LET entry == Get(MapGet(openToolSpans, callId)) IN
                /\ openToolSpans' = MapDelete(openToolSpans, callId)
                /\ IF addToolSpanAttributesThrows(payload)
                   THEN /\ hostErrors' = hostErrors \cup {"handlerException"}
                        /\ UNCHANGED <<currentThreadRollup, openTurns,
                                       detachedRollups, spanBuffer,
                                       flushTimer, timers, buffered, drained,
                                       inflight>>
                   ELSE /\ currentThreadRollup' =
                               IF IsSome(currentThreadRollup) /\ isError
                               THEN Some([Get(currentThreadRollup) EXCEPT
                                             !.toolErrorCount = @ + 1])
                               ELSE currentThreadRollup
                        /\ openTurns' = TurnsAfterToolResult(openTurns,
                                                            entry.turnRollup, isError)
                        /\ detachedRollups' =
                               DetachedAfterToolResult(detachedRollups,
                                                       entry.turnRollup, isError)
                        /\ SetExporter(endSpan(Exporter,
                                               addToolSpanAttributes(entry.span),
                                               IF isError THEN "error" ELSE "ok",
                                               config))
                        /\ UNCHANGED hostErrors
    /\ UNCHANGED <<cfgVars, registered, currentThreadSpan, capturedInput, nextId,
                   lastModel, modelChanges,
                   toolCallEvents>>

\* session_shutdown: resetProjectConfig, endThread("error"), flushSync
SessionShutdown ==
    /\ registered
    /\ LET marked == IF IsSome(currentThreadSpan)
                     THEN Some([Get(currentThreadSpan) EXCEPT !.attributes =
                                   SetAttr(SetAttr(@, "status", "error"),
                                           "aborted", TRUE)])
                     ELSE currentThreadSpan
           ended == endThread("error", marked, currentThreadRollup,
                              openTurns, openToolSpans, Exporter, config)
       IN /\ currentThreadSpan' = ended.thread
          /\ currentThreadRollup' = ended.rollup
          /\ SetExporter(flushSync(ended.ex, config))
          /\ hostErrors' = hostErrors \cup
                  (IF ended.ex.spanBuffer = <<>> THEN {}
                   ELSE exportBatchSync(config.destination.type, fault))
    /\ projectConfigApplied' = FALSE
    /\ openTurns' = <<>>
    /\ openToolSpans' = <<>>
    /\ detachedRollups' = Detach(openTurns, <<>>, detachedRollups)
    /\ capturedInput' = None
    /\ lastModel' = None
    /\ modelChanges' = 0
    /\ lastEvent' = "session_shutdown"
    /\ UNCHANGED <<envVars, config, registered, nextId,
                   toolCallEvents, matchedErrors>>

\* SIGTERM, SIGINT, beforeExit: flushSync
HandleSignal ==
    /\ registered
    /\ SetExporter(flushSync(Exporter, config))
    /\ hostErrors' = hostErrors \cup
            (IF spanBuffer = <<>> THEN {}
             ELSE exportBatchSync(config.destination.type, fault))
    /\ UNCHANGED <<cfgVars, ctlVars, toolCallEvents, matchedErrors, lastEvent>>

\* the callback scheduleFlush gave to setTimeout
FlushTimerFires ==
    /\ \E t \in timers :
          SetExporter(flush([Exporter EXCEPT !.flushTimer = FALSE,
                                             !.timers = @ \ {t}], config))
    /\ UNCHANGED <<cfgVars, ctlVars, hostErrors, toolCallEvents, matchedErrors, lastEvent>>

\* an asynchronous delivery started by flush() settles
DeliverySettles ==
    \E i \in inflight :
        LET outcome == exportBatch(drained[i].dest, fault) IN
        /\ inflight' = inflight \ {i}
        /\ drained' = [drained EXCEPT
                           ![i].attempts = deliveryAttempts(drained[i].dest)]
        /\ hostErrors' = hostErrors \cup FlushCatch(outcome.promise)
                                     \cup SocketErrorEvent(outcome.errorEvent)
        /\ UNCHANGED <<cfgVars, ctlVars, spanBuffer, flushTimer, timers, buffered,
                       toolCallEvents, matchedErrors, lastEvent>>

(***************************************************************************)
(* Specifications                                                          *)
(***************************************************************************)
Str_httpA == HttpPrefix \o <<"a">>
Str_httpB == HttpPrefix \o <<"b">>
Str_httpsC == HttpsPrefix \o <<"c">>
Str_fileD == FilePrefix \o <<"d">>
Str_unixS == UnixPrefix \o <<"s">>

HeadersG == <<[key |-> "Authorization", val |-> "g"]>>
HeadersP == <<[key |-> "Authorization", val |-> "p"]>>

NoEnv == [EXPORT |-> None, HEADERS |-> None, TIMEOUT |-> None,
          BATCH_SIZE |-> None, FLUSH_INTERVAL |-> None]

FileConfig(export, headers, batchSize, flushIntervalMs) ==
    [export |-> export, headers |-> headers, timeout |-> None,
     batchSize |-> batchSize, flushIntervalMs |-> flushIntervalMs]

\* the configuration files and environment the lifecycle is explored under
LifecycleGlobalFiles ==
    {Some(FileConfig(Some(e), None, Some(2), None)) : e \in {Str_unixS}}
LifecycleProjectFiles == {None}

\* ---- the settings files (loadFileConfig) ----
CONFIG_KEY == "pi-opentelemetry"

\* JSON values; an object is the list of its entries
JNull == [type |-> "null"]
JStr(s) == [type |-> "string", str |-> s]
JNum(n) == [type |-> "number", num |-> n]
JArr == [type |-> "array"]
JObj(entries) == [type |-> "object", entries |-> entries]
Entry(key, value) == [key |-> key, value |-> value]

\* obj[key]: None for undefined
JGet(obj, key) ==
    LET at == {i \in 1..Len(obj.entries) : obj.entries[i].key = key}
    IN  IF at = {} THEN None
        ELSE Some(obj.entries[CHOOSE i \in at : \A j \in at : j <= i].value)

isRecord(val) == val.type = "object"

\* a settings file: missing, unreadable, no JSON text, or JSON text
Missing == [file |-> "missing"]
Unreadable == [file |-> "unreadable"]
InvalidJson == [file |-> "invalid"]
Json(parsed) == [file |-> "json", parsed |-> parsed]

\* Object.entries(headersVal) as the list of headers; None when a value is no
\* string
HeaderEntries(headersVal) ==
    IF \E i \in 1..Len(headersVal.entries) :
           headersVal.entries[i].value.type # "string"
    THEN None
    ELSE Some([i \in 1..Len(headersVal.entries) |->
                  [key |-> headersVal.entries[i].key,
                   val |-> headersVal.entries[i].value.str]])

\* faulty variant: a field of the wrong type is left out, the others are kept
loadFileConfig_Lenient(settings) ==
    IF settings.file # "json" THEN None
    ELSE IF ~isRecord(settings.parsed) THEN None
    ELSE LET section == JGet(settings.parsed, CONFIG_KEY)
             Field(key, type) ==
                 IF IsSome(JGet(Get(section), key))
                    /\ Get(JGet(Get(section), key)).type = type
                 THEN JGet(Get(section), key) ELSE None
         IN  IF IsNone(section) THEN None
             ELSE IF ~isRecord(Get(section)) THEN None
             ELSE Some([export |-> IF IsSome(Field("export", "string"))
                                   THEN Some(Get(Field("export", "string")).str)
                                   ELSE None,
                        headers |-> IF IsSome(Field("headers", "object"))
                                    THEN HeaderEntries(Get(Field("headers", "object")))
                                    ELSE None,
                        timeout |-> IF IsSome(Field("timeout", "number"))
                                    THEN Some(Get(Field("timeout", "number")).num)
                                    ELSE None,
                        batchSize |-> IF IsSome(Field("batchSize", "number"))
                                      THEN Some(Get(Field("batchSize", "number")).num)
                                      ELSE None,
                        flushIntervalMs |->
                            IF IsSome(Field("flushIntervalMs", "number"))
                            THEN Some(Get(Field("flushIntervalMs", "number")).num)
                            ELSE None])

\* loadFileConfig: None for undefined
loadFileConfig(settings) ==
    IF settings.file = "missing" THEN None
    ELSE IF settings.file # "json" THEN None
    ELSE IF ~isRecord(settings.parsed) THEN None
    ELSE LET section == JGet(settings.parsed, CONFIG_KEY)
             exportVal == JGet(Get(section), "export")
             headersVal == JGet(Get(section), "headers")
             timeoutVal == JGet(Get(section), "timeout")
             batchSizeVal == JGet(Get(section), "batchSize")
             flushIntervalVal == JGet(Get(section), "flushIntervalMs")
             Number(val) == IF IsSome(val) THEN Some(Get(val).num) ELSE None
         IN  IF IsNone(section) THEN None
             ELSE IF ~isRecord(Get(section)) THEN None
             ELSE IF IsSome(exportVal) /\ Get(exportVal).type # "string" THEN None
             ELSE IF IsSome(headersVal) /\ ~isRecord(Get(headersVal)) THEN None
             ELSE IF IsSome(headersVal) /\ IsNone(HeaderEntries(Get(headersVal)))
                  THEN None
             ELSE IF IsSome(timeoutVal) /\ Get(timeoutVal).type # "number" THEN None
             ELSE IF IsSome(batchSizeVal) /\ Get(batchSizeVal).type # "number"
                  THEN None
             ELSE IF IsSome(flushIntervalVal) /\ Get(flushIntervalVal).type # "number"
                  THEN None
             ELSE Some([export |-> IF IsSome(exportVal)
                                   THEN Some(Get(exportVal).str) ELSE None,
                        headers |-> IF IsSome(headersVal)
                                    THEN HeaderEntries(Get(headersVal)) ELSE None,
                        timeout |-> Number(timeoutVal),
                        batchSize |-> Number(batchSizeVal),
                        flushIntervalMs |-> Number(flushIntervalVal)])

\* a settings file whose section holds these entries
Settings(entries) == Json(JObj(<<Entry(CONFIG_KEY, JObj(entries))>>))

\* the well-typed settings file that loadFileConfig reads as this FileConfig
SettingsOf(file) ==
    IF IsNone(file) THEN Missing
    ELSE LET fc == Get(file)
             Of(key, field, value) ==
                 IF IsSome(field) THEN <<Entry(key, value)>> ELSE <<>>
         IN  Settings(
                 Of("export", fc.export, JStr(Get(fc.export)))
                 \o Of("headers", fc.headers,
                       JObj([i \in 1..Len(Get(fc.headers)) |->
                                Entry(Get(fc.headers)[i].key,
                                      JStr(Get(fc.headers)[i].val))]))
                 \o Of("timeout", fc.timeout, JNum(Get(fc.timeout)))
                 \o Of("batchSize", fc.batchSize, JNum(Get(fc.batchSize)))
                 \o Of("flushIntervalMs", fc.flushIntervalMs,
                       JNum(Get(fc.flushIntervalMs))))

\* the settings files are the ones the two file layers were loaded from
SettingsAsLoaded ==
    /\ globalSettings = SettingsOf(globalFile)
    /\ projectSettings = SettingsOf(projectFile)

\* ---- the backpressure runner: its state (state.ts) ----
\* file paths, relative to the working directory
File_aT == <<"a", ".", "t">>
File_aJ == <<"a", ".", "j">>
Files == {File_aT, File_aJ}

\* a JavaScript Set: its elements in insertion order
SetHas(s, x) == \E i \in 1..Len(s) : s[i] = x
SetAdd(s, x) == IF SetHas(s, x) THEN s ELSE Append(s, x)
SetDelete(s, x) == SelectSeq(s, LAMBDA y : y # x)
Elements(s) == {s[i] : i \in 1..Len(s)}

createBackpressureState ==
    [config |-> None, modifiedFiles |-> <<>>, touchedFiles |-> <<>>,
     modificationCount |-> 0, bashStateByCallId |-> NoAttributes,
     debounceTimer |-> None, pendingCtx |-> None]

\* no check has just run
NoCheck ==
    [outcome |-> "none", candidates |-> <<>>, executed |-> <<>>,
     dirtyAfter |-> <<>>, sent |-> <<>>, notified |-> <<>>, ctx |-> None,
     calls |-> <<>>, rewritten |-> {}, resized |-> {}]

\* the ExtensionContext of an event, when a behaviour has one context only
Ctx == "ctx"
\* event.toolName
BackpressureTools == {"bash", "write", "read"}

\* no bash call awaits its result and no bash result has just been handled
NoBashEvents == [snapshots |-> NoAttributes, result |-> None]

\* no backpressure configuration, nothing tracked, an empty working tree
BackpressureIdle ==
    /\ bpFile = None
    /\ state = createBackpressureState
    /\ worktree = [f \in Files |-> "clean"]
    /\ lastCheck = NoCheck
    /\ bpTimers = {}
    /\ burst = <<>>
    /\ bashEvents = NoBashEvents
    /\ hostInputs = [ctxs |-> {Ctx}, callIds |-> {"c1"}, resizable |-> {},
                     tools |-> BackpressureTools]

InitEmpty ==
    /\ projectConfigApplied = FALSE
    /\ registered = (config.destination.type # "none")
    /\ currentThreadSpan = None
    /\ currentThreadRollup = None
    /\ openTurns = <<>>
    /\ openToolSpans = <<>>
    /\ capturedInput = None
    /\ lastModel = None
    /\ modelChanges = 0
    /\ detachedRollups = NoAttributes
    /\ spanBuffer = <<>>
    /\ flushTimer = FALSE
    /\ timers = {}
    /\ nextId = 1
    /\ buffered = <<>>
    /\ drained = <<>>
    /\ inflight = {}
    /\ hostErrors = {}
    /\ toolCallEvents = NoAttributes
    /\ matchedErrors = NoAttributes
    /\ lastEvent = Other

\* no utility function is under call
NoCall == [fn |-> "none", args |-> <<>>]

Init ==
    /\ BackpressureIdle
    /\ globalFile \in LifecycleGlobalFiles
    /\ projectFile \in LifecycleProjectFiles
    /\ env = NoEnv
    /\ fault = "none"
    /\ spanLimit = MaxSpans
    /\ call = NoCall
    /\ result = None
    /\ config = loadInitialConfig(globalFile, env)
    /\ InitEmpty
    /\ SettingsAsLoaded
    /\ ctxModel = None

Next ==
    \/ SessionStart
    \/ SessionSwitch
    \/ SessionFork
    \/ SessionTree
    \/ AgentStart
    \/ AgentEnd
    \/ TurnStart
    \/ TurnEnd
    \/ ToolCall
    \/ ToolResult
    \/ SessionShutdown

Spec == Init /\ [][Next]_vars

(***************************************************************************)
(* Properties of the lifecycle controller (under Spec)                     *)
(***************************************************************************)
IntAttr(otlp, k) == DecimalValue(otlp.attributes[k].intValue)

RECURSIVE SumTurnToolCounts(_, _)
SumTurnToolCounts(spans, traceId) ==
    IF spans = <<>> THEN 0
    ELSE (IF Head(spans).name = "Turn" /\ Head(spans).traceId = traceId
          THEN IntAttr(Head(spans), "turn.tool.count") ELSE 0)
         + SumTurnToolCounts(Tail(spans), traceId)

C2_UnmatchedEndEventIsNoOp ==
    [][lastEvent' \in {"tool_result_unmatched", "turn_end_unmatched"} =>
          UNCHANGED <<currentThreadRollup, openTurns, openToolSpans,
                      detachedRollups, spanBuffer, buffered, drained,
                      hostErrors>>]_vars

\* a tool_result for a call id that is not open, while another call is open
C2_Witness ==
    lastEvent = "tool_result_unmatched" /\ openToolSpans # <<>>

\* a step of a thread-begin handler
ThreadBeginStep == lastEvent' \in ThreadBeginEvents /\ nextId' # nextId

\* C3: at a thread-begin with a thread open, the previous Thread span has been
\* buffered, closed with status ok, when the new Thread span is there.
C3_PreviousThreadExported ==
    [][(ThreadBeginStep /\ IsSome(currentThreadSpan)) =>
          \E i \in DOMAIN buffered' :
              /\ buffered'[i].spanId = Get(currentThreadSpan).spanId
              /\ buffered'[i].name = "Thread"
              /\ buffered'[i].status.code = StatusCode("ok")]_vars

\* the relation a thread-begin event asks for
RelationOf(event) ==
    CASE event = "session_switch_resume" -> Some("resume")
      [] event = "session_fork" -> Some("fork")
      [] event = "session_tree" -> Some("tree")
      [] OTHER -> None

\* C4: a thread-begin with a relation and a thread open gives the new Thread span
\* exactly one link, to the trace id and span id of the thread just closed and
\* carrying the relation, and a trace id of its own; any other thread-begin
\* gives the new Thread span no link.
C4_Links ==
    [][ThreadBeginStep =>
          LET new == Get(currentThreadSpan')
              relation == RelationOf(lastEvent')
          IN IF IsSome(relation) /\ IsSome(currentThreadSpan)
             THEN /\ Len(new.links) = 1
                  /\ new.links[1].traceId = Get(currentThreadSpan).traceId
                  /\ new.links[1].spanId = Get(currentThreadSpan).spanId
                  /\ new.links[1].attributes["link.relation"] = Get(relation)
                  /\ new.traceId # new.links[1].traceId
             ELSE new.links = <<>>]_vars

\* a fork of an open thread: the new thread is linked
C4_Witness ==
    /\ lastEvent = "session_fork"
    /\ IsSome(currentThreadSpan)
    /\ Len(Get(currentThreadSpan).links) = 1

Occurrences(spans, spanId) == {i \in DOMAIN spans : spans[i].spanId = spanId}

C8_MalformedResultHandled ==
    [][lastEvent' = "tool_result_malformed" =>
          /\ hostErrors' = hostErrors
          /\ Len(openToolSpans') = Len(openToolSpans) - 1
          /\ Len(buffered') = Len(buffered) + 1
          /\ LET closed == buffered'[Len(buffered')]
             IN /\ closed.status.code # StatusCode("unset")
                /\ \E k \in DOMAIN openToolSpans :
                       openToolSpans[k].span.spanId = closed.spanId
                /\ \A k \in DOMAIN openToolSpans' :
                       openToolSpans'[k].span.spanId # closed.spanId]_vars



(***************************************************************************)
(* The exporter under every destination and delivery fault                 *)
(***************************************************************************)
ExportGlobalFiles ==
    {Some(FileConfig(Some(e), None, Some(2), None)) :
        e \in {Str_fileD, Str_httpA, Str_unixS}}

InitExport ==
    /\ BackpressureIdle
    /\ globalFile \in ExportGlobalFiles
    /\ projectFile = None
    /\ env = NoEnv
    /\ spanLimit = MaxSpans
    /\ call = NoCall
    /\ result = None
    /\ config = loadInitialConfig(globalFile, env)
    /\ fault \in ApplicableFailures(config.destination.type)
    /\ InitEmpty
    /\ SettingsAsLoaded
    /\ ctxModel = None

NextExport ==
    \/ SessionStart
    \/ AgentEnd
    \/ TurnStart
    \/ TurnEnd
    \/ SessionShutdown
    \/ HandleSignal
    \/ FlushTimerFires
    \/ DeliverySettles

SpecExport == InitExport /\ [][NextExport]_vars

\* C6: flush(), called directly or by bufferSpan, leaves no rejected promise
\* unobserved, whatever the destination and whatever goes wrong on delivery.
C6_FlushNeverRaises == "unhandledRejection" \notin hostErrors

\* an asynchronous delivery whose promise was rejected has settled
C6_Witness ==
    \E i \in DOMAIN drained :
        /\ drained[i].path = "async"
        /\ i \notin inflight
        /\ fault # "none"
        /\ exportBatch(drained[i].dest, fault).promise = "rejected"

\* C7: no delivery failure reaches the host, in the asynchronous path and in
\* the blocking path: no exception, no rejected promise, no uncaught error
\* event.
C7_NoDeliveryFailureReachesHost ==
    hostErrors \cap {"deliveryException", "unhandledRejection",
                     "uncaughtException"} = {}

\* C19: a failed HTTP delivery is retried up to 3 times before the batch is
\* dropped: a batch whose delivery to an HTTP destination has failed for good
\* (the endpoint refuses every connection, or never answers in time) has been
\* attempted more than once, 3 or 4 times in all.
C19_FailedHttpDeliveryRetried ==
    \A i \in 1..Len(drained) :
        (/\ drained[i].dest = "http"
         /\ i \notin inflight
         /\ fault \in {"refused", "timeout"})
        => drained[i].attempts \in {3, 4}

(***************************************************************************)
(* The configuration layers                                                *)
(***************************************************************************)
Str_5 == <<"5">>
Str_300 == <<"3", "0", "0">>
Str_abc == <<"a", "b", "c">>

ConfigGlobalFiles ==
    {None} \cup
    {Some(FileConfig(e, h, b, f)) :
        e \in {None, Some(Str_httpA), Some(Str_fileD), Some(StrNone)},
        h \in {None, Some(HeadersG)},
        b \in {None, Some(20), Some(0)},
        f \in {None, Some(200)}}

ConfigProjectFiles ==
    {None} \cup
    {Some(FileConfig(e, h, b, None)) :
        e \in {None, Some(Str_httpB), Some(StrNone)},
        h \in {None, Some(HeadersP)},
        b \in {None, Some(7), Some(0)}}

ConfigEnvs ==
    {[EXPORT |-> x, HEADERS |-> h, TIMEOUT |-> None,
      BATCH_SIZE |-> b, FLUSH_INTERVAL |-> f] :
        x \in {None, Some(Str_httpsC)},
        h \in {None, Some(<<[key |-> "k", val |-> Some("v")]>>)},
        b \in {None, Some(Str_5), Some(Str_abc)},
        f \in {None, Some(Str_300)}}

InitConfig ==
    /\ BackpressureIdle
    /\ globalFile \in ConfigGlobalFiles
    /\ projectFile \in ConfigProjectFiles
    /\ env \in ConfigEnvs
    /\ fault = "none"
    /\ spanLimit = MaxSpans
    /\ call = NoCall
    /\ result = None
    /\ config = loadInitialConfig(globalFile, env)
    /\ InitEmpty
    /\ SettingsAsLoaded
    /\ ctxModel = None

NextConfig ==
    \/ SessionStart
    \/ SessionShutdown

SpecConfig == InitConfig /\ [][NextConfig]_vars

\* the configuration holds the layers as they are now: before the first
\* session, or once a session start has applied the project file
ConfigSettled == projectConfigApplied \/ nextId = 1

\* the project layer in force
ProjectLayer == IF projectConfigApplied THEN projectFile ELSE None

\* what a file layer defines for a field, when positive
FileValue(file, field) ==
    IF IsSome(file) /\ IsSome(Get(file)[field]) /\ Get(Get(file)[field]) > 0
    THEN Get(file)[field] ELSE None

\* what an environment variable defines, when a positive number
EnvValue(value) ==
    CASE value = Some(Str_5) -> Some(5)
      [] value = Some(Str_300) -> Some(300)
      [] OTHER -> None

FirstDefined(layers, default) ==
    IF \E i \in DOMAIN layers : IsSome(layers[i])
    THEN Get(layers[CHOOSE i \in DOMAIN layers :
                        IsSome(layers[i]) /\ \A j \in 1..(i - 1) : IsNone(layers[j])])
    ELSE default

\* C9: batchSize and flushIntervalMs are those of the highest layer defining a
\* positive value: environment over project file over global file over the
\* defaults 10 and 5000.
C9_Layering ==
    ConfigSettled =>
        /\ config.batchSize =
              FirstDefined(<<EnvValue(env.BATCH_SIZE),
                             FileValue(ProjectLayer, "batchSize"),
                             FileValue(globalFile, "batchSize")>>, 10)
        /\ config.flushIntervalMs =
              FirstDefined(<<EnvValue(env.FLUSH_INTERVAL),
                             FileValue(ProjectLayer, "flushIntervalMs"),
                             FileValue(globalFile, "flushIntervalMs")>>, 5000)

\* global batchSize 20, project batchSize 7, environment batchSize 5: resolved 5
C9_Witness ==
    /\ projectConfigApplied
    /\ FileValue(globalFile, "batchSize") = Some(20)
    /\ FileValue(projectFile, "batchSize") = Some(7)
    /\ env.BATCH_SIZE = Some(Str_5)
    /\ config.batchSize = 5

IsHttpUrl(url) == StartsWith(url, HttpPrefix) \/ StartsWith(url, HttpsPrefix)

\* the layers as what they define for the destination and its headers
FileLayer(file) ==
    IF IsSome(file)
    THEN [export |-> Get(file).export, headers |-> Get(file).headers]
    ELSE [export |-> None, headers |-> None]

EnvLayer(e) ==
    [export |-> IF e.EXPORT = Some(<<>>) THEN None ELSE e.EXPORT,
     headers |-> parseHeadersFromEnv(e.HEADERS)]

\* the headers of the destination after the layers from i on, given whether the
\* destination so far is HTTP and its headers: a layer that names a destination
\* keeps the headers only from HTTP to HTTP, and a layer that defines headers
\* for an HTTP destination replaces them
RECURSIVE ExpectedHeaders(_, _, _, _)
ExpectedHeaders(layers, i, http, headers) ==
    IF i > Len(layers) THEN (IF http THEN headers ELSE None)
    ELSE LET layer == layers[i]
             http1 == IF IsSome(layer.export) THEN IsHttpUrl(Get(layer.export))
                      ELSE http
             kept == IF IsSome(layer.export) /\ ~(http /\ http1) THEN None
                     ELSE headers
             headers1 == IF http1 /\ IsSome(layer.headers) THEN layer.headers
                         ELSE kept
         IN ExpectedHeaders(layers, i + 1, http1, headers1)

\* C10: the headers of a resolved HTTP destination are those of the last layer
\* that defines headers, kept through every later layer that only changes the
\* URL to another HTTP URL.
C10_UrlOnlyOverrideKeepsHeaders ==
    (ConfigSettled /\ config.destination.type = "http") =>
        config.destination.headers =
            ExpectedHeaders(<<FileLayer(globalFile), FileLayer(ProjectLayer),
                              EnvLayer(env)>>, 1, FALSE, None)

\* the spans the controller can still reach
ReferencedSpanIds ==
    {currentThreadSpan[i].spanId : i \in 1..Len(currentThreadSpan)}
        \cup {openTurns[i].span.spanId : i \in 1..Len(openTurns)}
        \cup {openToolSpans[i].span.spanId : i \in 1..Len(openToolSpans)}

\* C15: a span that has been buffered is never changed afterwards (what the
\* exporter holds of it stays as it was when buffered, and it is not buffered a
\* second time), and the controller keeps no reference to it: it is out of
\* the open-turn stack, the open-tool table and the current-thread slot.
C15_BufferedSpansAreFinal ==
    [][/\ Len(buffered') >= Len(buffered)
       /\ \A i \in 1..Len(buffered) : buffered'[i] = buffered[i]
       /\ \A i \in 1..Len(buffered') :
             /\ buffered'[i].spanId \notin ReferencedSpanIds'
             /\ \A j \in 1..Len(buffered') :
                   buffered'[j].spanId = buffered'[i].spanId => j = i]_vars

\* a Tool span and its Turn span are buffered while their thread stays open
C15_Witness ==
    /\ IsSome(currentThreadSpan)
    /\ \E i, j \in 1..Len(buffered) :
          buffered[i].name = "Turn" /\ buffered[j].name = "Bash"

ThreadOpen == IsSome(currentThreadSpan) /\ IsSome(currentThreadRollup)

FoldedOnto(span, rollup) ==
    /\ HasAttr(span.attributes, "turn.count")
    /\ span.attributes["turn.count"] = rollup.turnCount
    /\ HasAttr(span.attributes, "tool.count")
    /\ span.attributes["tool.count"] = rollup.toolCount
    /\ HasAttr(span.attributes, "tool.error_count")
    /\ span.attributes["tool.error_count"] = rollup.toolErrorCount

IdSet(spans) == {spans[i].spanId : i \in 1..Len(spans)}

C20_OnlyThreadIsRoot ==
    \A i \in 1..Len(buffered) :
        IsNone(buffered[i].parentSpanId) => buffered[i].name = "Thread"

\* C20, amended: the exported spans without parentSpanId are the Thread spans
\* and the session.fork and session.tree event spans, each alone in a trace
\* of its own; every other exported span has a parentSpanId.
C20_RootSpans ==
    \A i \in 1..Len(buffered) :
        /\ IsNone(buffered[i].parentSpanId)
              <=> buffered[i].name \in {"Thread", "session.fork", "session.tree"}
        /\ buffered[i].name \in {"session.fork", "session.tree"} =>
              \A j \in 1..Len(buffered) :
                  buffered[j].traceId = buffered[i].traceId => j = i

\* a fork has exported the Thread span it closed and its session.fork span,
\* both without parentSpanId
C20_Witness ==
    \E i, j \in 1..Len(buffered) :
        /\ buffered[i].name = "Thread" /\ IsNone(buffered[i].parentSpanId)
        /\ buffered[j].name = "session.fork" /\ IsNone(buffered[j].parentSpanId)

(***************************************************************************)
(* The rollups, under the handlers that touch them and with room for a     *)
(* second thread after a turn and a tool call                              *)
(***************************************************************************)
InitRollup ==
    /\ BackpressureIdle
    /\ globalFile \in LifecycleGlobalFiles
    /\ projectFile \in LifecycleProjectFiles
    /\ env = NoEnv
    /\ fault = "none"
    /\ spanLimit = MaxSpans + 1
    /\ call = NoCall
    /\ result = None
    /\ config = loadInitialConfig(globalFile, env)
    /\ InitEmpty
    /\ SettingsAsLoaded
    /\ ctxModel = None

NextRollup ==
    \/ SessionStart
    \/ TurnStart
    \/ TurnEnd
    \/ ToolCall
    \/ ToolResult
    \/ SessionShutdown

SpecRollup == InitRollup /\ [][NextRollup]_vars

\* every turn rollup a handler can reach, with the trace id of its thread
TurnRollups ==
    [id \in DOMAIN detachedRollups
            \cup {openTurns[i].span.spanId : i \in 1..Len(openTurns)} |->
        IF id \in DOMAIN detachedRollups THEN detachedRollups[id]
        ELSE LET turn == openTurns[CHOOSE i \in 1..Len(openTurns) :
                                      openTurns[i].span.spanId = id]
             IN [owner |-> turn.span.traceId, rollup |-> turn.rollup]]

CountOf(map, key) == IF key \in DOMAIN map THEN map[key] ELSE 0

\* the thread rollup of the thread of that trace grows by d in the field
ThreadRollupGrows(owner, field, d) ==
    /\ IsSome(currentThreadSpan) /\ IsSome(currentThreadSpan')
    /\ currentThreadSpan[1].traceId = owner
    /\ currentThreadSpan'[1].traceId = owner
    /\ IsSome(currentThreadRollup) /\ IsSome(currentThreadRollup')
    /\ currentThreadRollup'[1][field] - currentThreadRollup[1][field] = d

ThreadRollupToolGrows(owner, toolName, d) ==
    /\ IsSome(currentThreadSpan) /\ IsSome(currentThreadSpan')
    /\ currentThreadSpan[1].traceId = owner
    /\ currentThreadSpan'[1].traceId = owner
    /\ IsSome(currentThreadRollup) /\ IsSome(currentThreadRollup')
    /\ CountOf(currentThreadRollup'[1].toolCounts, toolName)
           - CountOf(currentThreadRollup[1].toolCounts, toolName) = d

\* C16: every increment of a field of a turn rollup (tool count, per-tool
\* count, error count) comes, in the same event, with an equal increment of
\* that field of the thread rollup of the thread that owns the turn.
C16_TurnIncrementsReachThread ==
    [][\A id \in DOMAIN TurnRollups \cap DOMAIN TurnRollups' :
          LET before == TurnRollups[id].rollup
              after == TurnRollups'[id].rollup
              owner == TurnRollups[id].owner
          IN /\ \A field \in {"toolCount", "toolErrorCount"} :
                   after[field] > before[field] =>
                       ThreadRollupGrows(owner, field, after[field] - before[field])
             /\ \A toolName \in ToolNames :
                   CountOf(after.toolCounts, toolName)
                       > CountOf(before.toolCounts, toolName) =>
                       ThreadRollupToolGrows(owner, toolName,
                           CountOf(after.toolCounts, toolName)
                               - CountOf(before.toolCounts, toolName))]_vars

\* where a destination delivers to: its type and its url, dir or path
DeliveryTarget(destination) ==
    CASE destination.type = "http" -> <<"http", destination.url>>
      [] destination.type = "file" -> <<"file", destination.dir>>
      [] destination.type = "unix" -> <<"unix", destination.path>>
      [] OTHER -> <<"none">>

ProjectExport ==
    IF IsSome(projectFile) THEN projectFile[1].export ELSE None

\* C14: the project file overrides the global file for the destination in
\* every case, the one where the global file says "none" included: once
\* session start has been emitted with a project file that names a
\* destination (and no PI_TELEMETRY_EXPORT), the resolved destination is the
\* project's, and, unless that is "none", a thread is open whose spans go
\* there.
C14_ProjectDestinationWins ==
    (/\ lastEvent = "session_start"
     /\ IsSome(ProjectExport)
     /\ IsNone(env.EXPORT))
    => /\ DeliveryTarget(config.destination) =
              DeliveryTarget(parseDestination(ProjectExport))
       /\ parseDestination(ProjectExport).type # "none" => IsSome(currentThreadSpan)
       /\ \A i \in 1..Len(drained) :
              drained[i].dest = parseDestination(ProjectExport).type

(***************************************************************************)
(* The utility functions, each called once on an input drawn at Init       *)
(***************************************************************************)
DestinationPrefixes ==
    {<<>>, StrNone, FilePrefix, UnixPrefix, HttpPrefix, HttpsPrefix,
     <<"f", "i", "l", "e", ":">>}
DestinationSuffixes ==
    {<<>>, <<"a">>, <<"~">>, <<"~", "/", "a">>, <<"/", "a">>, <<"~", "a">>}
\* PI_TELEMETRY_EXPORT / "export": unset, or a string
DestinationValues ==
    {None} \cup {Some(p \o x) : p \in DestinationPrefixes, x \in DestinationSuffixes}

ParseDestinationCalls ==
    {[fn |-> "parseDestination", args |-> <<value>>] : value \in DestinationValues}

CallParseDestination ==
    /\ call.fn = "parseDestination"
    /\ result = None
    /\ result' = Some(parseDestination(call.args[1]))
    /\ UNCHANGED <<bpVars, rawVars, ctxModel, globalFile, projectFile, env, fault, spanLimit, call, config,
                   projectConfigApplied, ctlVars, expVars, toolCallEvents, matchedErrors, lastEvent>>

MaxLen == 3

\* the characters strings are made of: a letter, the two whitespace characters
\* space and tab, and the characters extractCommand looks for
Chars == {"g", " ", "\t", "-", ".", "/"}

RECURSIVE StringsOfLength(_)
StringsOfLength(n) ==
    IF n = 0 THEN {<<>>}
    ELSE {Append(x, c) : x \in StringsOfLength(n - 1), c \in Chars}

Strings == UNION {StringsOfLength(n) : n \in 0..MaxLen}

\* U+2026, one character
Ellipsis == "..."
TruncationMarker ==
    <<Ellipsis, "[", "t", "r", "u", "n", "c", "a", "t", "e", "d", "]">>

truncate_Eager(value, maxLength) ==
    LET length == Len(value)
        truncated == length >= maxLength
        text == IF truncated
                THEN SubSeq(value, 1, maxLength) \o TruncationMarker
                ELSE value
    IN [text |-> text, length |-> length, truncated |-> truncated]

\* maxLength is a length: an integer that is not negative
truncate(value, maxLength) ==
    LET length == Len(value)
        truncated == length > maxLength
        text == IF truncated
                THEN SubSeq(value, 1, maxLength) \o TruncationMarker
                ELSE value
    IN [text |-> text, length |-> length, truncated |-> truncated]

TruncateCalls ==
    {[fn |-> "truncate", args |-> <<value, maxLength>>, onResult |-> FALSE] :
        value \in Strings, maxLength \in 0..(MaxLen + 1)}

CallTruncate ==
    /\ call.fn = "truncate"
    /\ result = None
    /\ result' = Some(truncate(call.args[1], call.args[2]))
    /\ UNCHANGED <<bpVars, rawVars, ctxModel, globalFile, projectFile, env, fault, spanLimit, call, config,
                   projectConfigApplied, ctlVars, expVars, toolCallEvents, matchedErrors, lastEvent>>

\* the text a call returned is passed to truncate again, with the same bound
CallTruncateOnResult ==
    /\ call.fn = "truncate"
    /\ ~call.onResult
    /\ IsSome(result)
    /\ call' = [fn |-> "truncate", args |-> <<result[1].text, call.args[2]>>,
                onResult |-> TRUE]
    /\ result' = None
    /\ UNCHANGED <<bpVars, rawVars, ctxModel, globalFile, projectFile, env, fault, spanLimit, config,
                   projectConfigApplied, ctlVars, expVars, toolCallEvents, matchedErrors, lastEvent>>

\* whitespace (String.prototype.trim, \s), of which Chars has two
IsSpace(c) == c \in {" ", "\t"}

TrimStart_Kept(s) == s

RECURSIVE TrimStart(_)
TrimStart(s) ==
    IF s # <<>> /\ IsSpace(Head(s)) THEN TrimStart(Tail(s)) ELSE s

RECURSIVE TrimEnd(_)
TrimEnd(s) ==
    IF s # <<>> /\ IsSpace(s[Len(s)]) THEN TrimEnd(SubSeq(s, 1, Len(s) - 1)) ELSE s

\* String.prototype.trim
Trim(s) == TrimEnd(TrimStart(s))

\* s.split(/\s+/), cur being the part read so far
RECURSIVE SplitWhitespace(_, _)
SplitWhitespace(s, cur) ==
    IF s = <<>> THEN <<cur>>
    ELSE IF IsSpace(Head(s))
         THEN <<cur>> \o SplitWhitespace(TrimStart(Tail(s)), <<>>)
         ELSE SplitWhitespace(Tail(s), Append(cur, Head(s)))

NotAvailable == <<"n", "/", "a">>

extractCommand(cmd) ==
    LET trimmed == Trim(cmd) IN
    IF trimmed = <<>> THEN NotAvailable
    ELSE LET parts == SplitWhitespace(trimmed, <<>>)
             first == parts[1]
         IN
         IF first = <<>> THEN NotAvailable
         ELSE LET base == IF StartsWith(first, <<".", "/">>) THEN Slice(first, 2)
                          ELSE first
              IN
              IF base = <<>> THEN NotAvailable
              ELSE IF /\ Len(parts) >= 2
                      /\ parts[2] # <<>>
                      /\ ~StartsWith(parts[2], <<"-">>)
                   THEN base \o <<".">> \o parts[2]
                   ELSE base

Cmd_gitStatus ==
    <<"g", "i", "t", " ", "s", "t", "a", "t", "u", "s", " ", "-",
      "-", "p", "o", "r", "c", "e", "l", "a", "i", "n">>
Cmd_ls == <<"l", "s", " ", "-", "l", "a">>
Cmd_build ==
    <<".", "/", "b", "u", "i", "l", "d", ".", "s", "h", " ", "-",
      "-", "p", "r", "o", "d">>
ExampleCommands == {Cmd_gitStatus, Cmd_ls, Cmd_build}

ExtractCommandCalls ==
    {[fn |-> "extractCommand", args |-> <<cmd>>] : cmd \in Strings \cup ExampleCommands}

CallExtractCommand ==
    /\ call.fn = "extractCommand"
    /\ result = None
    /\ result' = Some(extractCommand(call.args[1]))
    /\ UNCHANGED <<bpVars, rawVars, ctxModel, globalFile, projectFile, env, fault, spanLimit, call, config,
                   projectConfigApplied, ctlVars, expVars, toolCallEvents, matchedErrors, lastEvent>>

UtilityCalls == ParseDestinationCalls \cup TruncateCalls \cup ExtractCommandCalls

InitUtility ==
    /\ BackpressureIdle
    /\ globalFile = None
    /\ projectFile = None
    /\ env = NoEnv
    /\ fault = "none"
    /\ spanLimit = MaxSpans
    /\ call \in UtilityCalls
    /\ result = None
    /\ config = loadInitialConfig(globalFile, env)
    /\ InitEmpty
    /\ SettingsAsLoaded
    /\ ctxModel = None

NextUtility ==
    \/ CallParseDestination
    \/ CallTruncate
    \/ CallTruncateOnResult
    \/ CallExtractCommand

SpecUtility == InitUtility /\ [][NextUtility]_vars

ParseDestinationReturned == call.fn = "parseDestination" /\ IsSome(result)

\* the path a leading "~" stands for: the home directory joined with what follows
TildeExpanded(p) ==
    IF Len(p) > 0 /\ p[1] = "~"
    THEN IF Len(p) = 1 THEN HomeDir
         ELSE IF p[2] = "/" THEN HomeDir \o Tail(p)
         ELSE HomeDir \o <<"/">> \o Tail(p)
    ELSE p

\* the mapping of a destination string, with Path applied to the directory named
\* by the string
DestinationMapping(value, Path(_)) ==
    LET defaultFile == [type |-> "file", dir |-> TildeExpanded(DEFAULT_TELEMETRY_DIR)] IN
    IF value = None \/ value = Some(<<>>) THEN defaultFile
    ELSE LET v == value[1]
             rest == SubSeq(v, 8, Len(v))
         IN
         IF v = StrNone THEN [type |-> "none"]
         ELSE IF StartsWith(v, FilePrefix)
              THEN IF rest = <<>> THEN defaultFile
                   ELSE [type |-> "file", dir |-> Path(rest)]
         ELSE IF StartsWith(v, UnixPrefix)
              THEN IF rest = <<>> THEN defaultFile
                   ELSE [type |-> "unix", path |-> rest]
         ELSE IF StartsWith(v, HttpPrefix) \/ StartsWith(v, HttpsPrefix)
              THEN [type |-> "http", url |-> v, headers |-> None, timeout |-> None]
         ELSE [type |-> "file", dir |-> Path(v)]

LiteralPath(p) == p

\* C11 as stated: parseDestination maps every destination string to a
\* destination ("none" to none, file:// to a file destination at the rest of
\* the string or the default directory, unset or empty to the default file
\* destination, unix:// to the socket or the default file destination,
\* http(s):// to that URL), and any other string to a file destination at
\* that literal path.
C11_LiteralPath ==
    ParseDestinationReturned =>
        result[1] = DestinationMapping(call.args[1], LiteralPath)

\* C11, amended: the same mapping, where the directory of a file destination
\* is the path named by the string with a leading "~" expanded to the home
\* directory.
C11_ParseDestinationTotal ==
    ParseDestinationReturned =>
        result[1] = DestinationMapping(call.args[1], TildeExpanded)

C11_Witness ==
    /\ ParseDestinationReturned
    /\ call.args[1] = Some(<<"~", "/", "a">>)
    /\ result[1] = [type |-> "file", dir |-> HomeDir \o <<"/", "a">>]

TruncateReturned == call.fn = "truncate" /\ IsSome(result)

\* C12: truncating the text of a truncation again, with the same bound,
\* returns that text; and a string no longer than the bound is returned
\* unchanged, reported as not truncated, with its own length.
C12_TruncateIdempotent ==
    TruncateReturned =>
        /\ call.onResult => result[1].text = call.args[1]
        /\ Len(call.args[1]) <= call.args[2] =>
               result[1] = [text |-> call.args[1], length |-> Len(call.args[1]),
                            truncated |-> FALSE]

C12_Witness ==
    /\ TruncateReturned
    /\ call.onResult
    /\ call.args = <<<<"g", "-">> \o TruncationMarker, 2>>
    /\ result[1].truncated
    /\ result[1].text = call.args[1]

ExtractCommandReturned == call.fn = "extractCommand" /\ IsSome(result)

\* the tokens of s: its maximal runs of characters that are not whitespace
TokenStarts(s) ==
    {i \in 1..Len(s) : ~IsSpace(s[i]) /\ (i = 1 \/ IsSpace(s[i - 1]))}
TokenFrom(s, i) ==
    SubSeq(s, i, CHOOSE j \in i..Len(s) :
                     /\ \A k \in i..j : ~IsSpace(s[k])
                     /\ j = Len(s) \/ IsSpace(s[j + 1]))
FirstStart(starts) == CHOOSE i \in starts : \A j \in starts : i <= j
FirstToken(s) == TokenFrom(s, FirstStart(TokenStarts(s)))
HasSecondToken(s) == Cardinality(TokenStarts(s)) >= 2
SecondToken(s) ==
    TokenFrom(s, FirstStart(TokenStarts(s) \ {FirstStart(TokenStarts(s))}))
BaseOf(token) ==
    IF Len(token) >= 2 /\ token[1] = "." /\ token[2] = "/"
    THEN SubSeq(token, 3, Len(token))
    ELSE token

\* base.subcommand when a second token exists and does not start with "-",
\* the base alone otherwise
BaseAndSubcommand(s) ==
    IF HasSecondToken(s) /\ SecondToken(s)[1] # "-"
    THEN BaseOf(FirstToken(s)) \o <<".">> \o SecondToken(s)
    ELSE BaseOf(FirstToken(s))

MaxModifications == 3

\* ---- config.ts ----
DefaultTimeoutMs == 60000
DefaultTriggerModifications == 5
DefaultTriggerFiles == 3

Chars_ck == <<"c", "k">>
Chars_ckPadded == <<"c", "k", " ">>
Exe_tsc == <<"t", "s", "c">>
Exe_lint == <<"b", "/", "l">>
Exe_sh == <<"s", "h">>
Arg_script == <<"x", "/", "f">>
Glob_T == <<"*", ".", "t">>
Glob_J == <<"*", ".", "j">>
Glob_A == <<"a", ".", "*">>

Command(name, run, timeoutMs) == [name |-> name, run |-> run, timeoutMs |-> timeoutMs]
Rule(glob, commands) == [glob |-> glob, commands |-> commands]
Trigger(modifications, files) == [modifications |-> modifications, files |-> files]

Cmd_check == Command(Some(Chars_ck), <<Exe_tsc>>, Some(1000))
Cmd_checkSlow == Command(Some(Chars_ckPadded), <<Exe_tsc>>, None)
Cmd_lint == Command(None, <<Exe_lint>>, None)
Cmd_script == Command(None, <<Exe_sh, Arg_script>>, None)

\* a.t matches both rules, a.j only the second
Cfg_Overlap ==
    [trigger |-> Some(Trigger(2, 2)),
     rules |-> <<Rule(Glob_T, <<Cmd_check, Cmd_lint>>), Rule(Glob_A, <<Cmd_script>>)>>]
\* two rules with a command of the same name and argv
Cfg_Shared ==
    [trigger |-> Some(Trigger(2, 2)),
     rules |-> <<Rule(Glob_T, <<Cmd_check>>), Rule(Glob_J, <<Cmd_checkSlow>>)>>]
\* a.t matches no rule
Cfg_OnlyJ ==
    [trigger |-> Some(Trigger(1, 1)), rules |-> <<Rule(Glob_J, <<Cmd_lint>>)>>]
\* rejected by the schema: no rule, and the default trigger
Cfg_NoRules == [trigger |-> None, rules |-> <<>>]
BackpressureFiles ==
    {None, Some(Cfg_Overlap), Some(Cfg_Shared), Some(Cfg_OnlyJ), Some(Cfg_NoRules)}

\* Value.Default(BackpressureConfigSchema, parsed)
WithDefaults(parsed) ==
    [parsed EXCEPT !.trigger =
        IF IsNone(@)
        THEN Trigger(DefaultTriggerModifications, DefaultTriggerFiles)
        ELSE Get(@)]

\* Value.Check(BackpressureConfigSchema, withDefaults)
CheckCommand(c) ==
    /\ IsSome(c.name) => Len(Get(c.name)) >= 1
    /\ Len(c.run) >= 1
    /\ \A i \in 1..Len(c.run) : Len(c.run[i]) >= 1
    /\ IsSome(c.timeoutMs) => Get(c.timeoutMs) >= 1
CheckRule(r) ==
    /\ Len(r.glob) >= 1
    /\ Len(r.commands) >= 1
    /\ \A i \in 1..Len(r.commands) : CheckCommand(r.commands[i])
CheckConfig(cfg) ==
    /\ cfg.trigger.modifications >= 1
    /\ cfg.trigger.files >= 1
    /\ Len(cfg.rules) >= 1
    /\ \A i \in 1..Len(cfg.rules) : CheckRule(cfg.rules[i])

\* loadConfig: None for null
loadConfig(file) ==
    IF IsNone(file) THEN None
    ELSE LET withDefaults == WithDefaults(Get(file))
         IN  IF CheckConfig(withDefaults) THEN Some(withDefaults) ELSE None

\* path.basename, for a path that does not end in a separator
basename(p) ==
    LET seps == {i \in 1..Len(p) : p[i] = "/"}
    IN  IF seps = {} THEN p
        ELSE SubSeq(p, (CHOOSE i \in seps : \A j \in seps : j <= i) + 1, Len(p))

commandDisplayName(cmd) ==
    LET explicit == IF IsSome(cmd.name) THEN Some(Trim(Get(cmd.name))) ELSE None
        exe == IF Len(cmd.run) >= 1 THEN cmd.run[1] ELSE <<"c", "h", "e", "c", "k">>
        second == IF Len(cmd.run) >= 2 THEN Some(cmd.run[2]) ELSE None
    IN  IF IsSome(explicit) /\ Len(Get(explicit)) > 0 THEN Get(explicit)
        ELSE IF (exe = Exe_sh \/ exe = <<"b", "a", "s", "h">>)
                /\ IsSome(second) /\ Len(Get(second)) > 0
             THEN basename(Get(second))
             ELSE basename(exe)

\* ---- git.ts ----
\* what git status and the disk say of a file: clean, dirty (modified, added
\* or untracked) or deleted (removed from the disk)
Statuses == {"clean", "dirty", "deleted"}
existsSync(wt, f) == wt[f] \in {"clean", "dirty"}
\* the order in which git status lists paths
PathOrder == <<File_aJ, File_aT>>

\* getGitDirtyFiles; ok = FALSE when git cannot be run or times out
getGitDirtyFiles(wt, ok) ==
    IF ok
    THEN [dirty |-> SelectSeq(PathOrder, LAMBDA f : wt[f] = "dirty"),
          deleted |-> SelectSeq(PathOrder, LAMBDA f : wt[f] = "deleted")]
    ELSE [dirty |-> <<>>, deleted |-> <<>>]

\* ---- tracking.ts ----
\* filePath.replace(/\\/g, "/") of a relative path
Normalized(filePath) ==
    [i \in 1..Len(filePath) |-> IF filePath[i] = "\\" THEN "/" ELSE filePath[i]]

trackFile(st, filePath) ==
    LET clean == Normalized(filePath)
    IN  [st EXCEPT !.modifiedFiles = SetAdd(@, clean),
                   !.touchedFiles = SetAdd(@, clean),
                   !.modificationCount = @ + 1]

pruneDeletedFromTracking(st, deleted) ==
    [st EXCEPT !.modifiedFiles = SelectSeq(@, LAMBDA f : ~SetHas(deleted, f)),
               !.touchedFiles = SelectSeq(@, LAMBDA f : ~SetHas(deleted, f))]

pruneMissingFromTracking(st, wt) ==
    LET missing == {f \in Elements(st.modifiedFiles) : ~existsSync(wt, f)}
    IN  [st EXCEPT !.modifiedFiles = SelectSeq(@, LAMBDA f : f \notin missing),
                   !.touchedFiles = SelectSeq(@, LAMBDA f : f \notin missing)]

\* faulty variant: nothing is dropped
pruneCleanFromTracking_Kept(st, currentDirty) == st

pruneCleanFromTracking(st, currentDirty) ==
    LET clean == {f \in Elements(st.modifiedFiles) : ~SetHas(currentDirty, f)}
    IN  [st EXCEPT !.modifiedFiles = SelectSeq(@, LAMBDA f : f \notin clean),
                   !.touchedFiles = SelectSeq(@, LAMBDA f : f \notin clean)]

shouldTrigger(st, cfg) ==
    \/ st.modificationCount >= cfg.trigger.modifications
    \/ Len(st.touchedFiles) >= cfg.trigger.files

\* ---- commands.ts ----
\* path.matchesGlob, for patterns of literal characters and "*" (any run of
\* characters other than "/")
RECURSIVE matchesGlob(_, _)
matchesGlob(path, pattern) ==
    IF pattern = <<>> THEN path = <<>>
    ELSE IF Head(pattern) = "*"
         THEN \/ matchesGlob(path, Tail(pattern))
              \/ /\ path # <<>>
                 /\ Head(path) # "/"
                 /\ matchesGlob(Tail(path), pattern)
         ELSE /\ path # <<>>
              /\ Head(path) = Head(pattern)
              /\ matchesGlob(Tail(path), Tail(pattern))

globMatch(filePath, pattern) == matchesGlob(filePath, pattern)

\* None for null
firstMatchingRule(filePath, rules) ==
    LET matching == {i \in 1..Len(rules) : globMatch(filePath, rules[i].glob)}
    IN  IF matching = {} THEN None
        ELSE Some(rules[CHOOSE i \in matching : \A j \in matching : i <= j])

\* the key of a command group: name and argv joined by NUL
GroupKey(name, run) == <<name>> \o run

\* one pass of the inner loop of groupFilesByCommand
AddToGroup(groups, file, command) ==
    LET name == commandDisplayName(command)
        key == GroupKey(name, command.run)
    IN  IF \E i \in 1..Len(groups) : groups[i].key = key
        THEN [i \in 1..Len(groups) |->
                 IF groups[i].key = key
                 THEN [groups[i] EXCEPT !.files = Append(@, file)]
                 ELSE groups[i]]
        ELSE Append(groups, [key |-> key, command |-> command, name |-> name,
                             files |-> <<file>>])

\* one pass of the outer loop of groupFilesByCommand
AddFileToGroups(groups, file, cfg) ==
    LET rule == firstMatchingRule(file, cfg.rules)
        commands == IF IsNone(rule) THEN <<>> ELSE Get(rule).commands
        Added[n \in 0..Len(commands)] ==
            IF n = 0 THEN groups ELSE AddToGroup(Added[n - 1], file, commands[n])
    IN  Added[Len(commands)]

\* the Map of command groups, in insertion order
groupFilesByCommand(files, cfg) ==
    LET Grouped[n \in 0..Len(files)] ==
            IF n = 0 THEN <<>> ELSE AddFileToGroups(Grouped[n - 1], files[n], cfg)
    IN  Grouped[Len(files)]

\* runCommands; failing = the groups whose command exits non-zero or times
\* out.  executed lists the execFileSync calls made.
runCommands(groups, failing) ==
    LET run == {i \in 1..Len(groups) : Len(groups[i].files) > 0}
        valid == {i \in run : Len(groups[i].command.run) >= 1
                               /\ Len(groups[i].command.run[1]) > 0}
        Exec(i) ==
            [command |-> groups[i].command,
             exe |-> groups[i].command.run[1],
             args |-> Tail(groups[i].command.run) \o groups[i].files,
             files |-> groups[i].files,
             timeout |-> IF IsNone(groups[i].command.timeoutMs)
                         THEN DefaultTimeoutMs
                         ELSE Get(groups[i].command.timeoutMs)]
        Executed[n \in 0..Len(groups)] ==
            IF n = 0 THEN <<>>
            ELSE IF n \in valid THEN Append(Executed[n - 1], Exec(n))
                 ELSE Executed[n - 1]
        Errors[n \in 0..Len(groups)] ==
            IF n = 0 THEN <<>>
            ELSE IF n \in run /\ (n \notin valid \/ n \in failing)
                 THEN Append(Errors[n - 1],
                             [name |-> groups[n].name, files |-> groups[n].files])
                 ELSE Errors[n - 1]
    IN  [passed |-> Errors[Len(groups)] = <<>>, errors |-> Errors[Len(groups)],
         executed |-> Executed[Len(groups)]]

\* ---- snapshot.ts ----
\* buildSnapshot; rewritten = the files whose mtime, resized = the files
\* whose size is no longer what it was when the check began.  The id of the
\* snapshot joins the fields of the entries, so it is the entries themselves.
buildSnapshot(wt, files, rewritten, resized) ==
    LET listed == SelectSeq(PathOrder, LAMBDA f : SetHas(files, f))
    IN  [i \in 1..Len(listed) |->
            IF existsSync(wt, listed[i])
            THEN [path |-> listed[i],
                  mtimeMs |-> IF listed[i] \in rewritten THEN 2 ELSE 1,
                  size |-> IF listed[i] \in resized THEN 2 ELSE 1,
                  missing |-> FALSE]
            ELSE [path |-> listed[i], mtimeMs |-> 0, size |-> 0,
                  missing |-> TRUE]]

\* faulty variant: the sizes are not compared
snapshotChanged_MtimeOnly(before, after) ==
    [i \in DOMAIN before |-> [before[i] EXCEPT !.size = 0]]
        # [i \in DOMAIN after |-> [after[i] EXCEPT !.size = 0]]

snapshotChanged(before, after) == before # after

\* ---- backpressure.ts ----
\* the extension state together with the host's pending timers and the
\* scheduleBackpressure calls made so far
Backpressure(st, tm, calls) == [state |-> st, timers |-> tm, calls |-> calls]

\* setTimeout: the handle of the new timer, distinct from every pending one
FreshTimer(tm) ==
    CHOOSE n \in 0..Cardinality(tm) : n \notin tm /\ \A m \in 0..(n - 1) : m \in tm

clearTimeout(tm, id) == tm \ {id}

\* faulty variant: the pending timer is left running
scheduleBackpressure_NoClear(bp, ctx) ==
    LET id == FreshTimer(bp.timers)
    IN  Backpressure([bp.state EXCEPT !.pendingCtx = Some(ctx),
                                      !.debounceTimer = Some(id)],
                     bp.timers \cup {id}, Append(bp.calls, ctx))

scheduleBackpressure(bp, ctx) ==
    LET cleared == IF IsSome(bp.state.debounceTimer)
                   THEN clearTimeout(bp.timers, Get(bp.state.debounceTimer))
                   ELSE bp.timers
        id == FreshTimer(cleared)
    IN  Backpressure([bp.state EXCEPT !.pendingCtx = Some(ctx),
                                      !.debounceTimer = Some(id)],
                     cleared \cup {id}, Append(bp.calls, ctx))

\* pi.sendMessage(message, options), as one record
Message(errors) ==
    [customType |-> "backpressure", content |-> errors, display |-> TRUE,
     triggerTurn |-> TRUE, deliverAs |-> "steer"]

\* notified: the levels of the pass and fail notifications made through
\* ctx.ui.notify, for a context with a UI
Checked(outcome, candidates, executed, dirtyAfter, sent, notified) ==
    [outcome |-> outcome, candidates |-> candidates, executed |-> executed,
     dirtyAfter |-> dirtyAfter, sent |-> sent, notified |-> notified,
     ctx |-> None, calls |-> <<>>, rewritten |-> {}, resized |-> {}]
Skipped(outcome) == Checked(outcome, <<>>, <<>>, <<>>, <<>>, <<>>)

\* faulty variant: the touched files are kept
ResetCounters_CountOnly(st) == [st EXCEPT !.modificationCount = 0]

ResetCounters(st) == [st EXCEPT !.modificationCount = 0, !.touchedFiles = <<>>]

\* runBackpressureCheck up to the point where the commands are run
\* (lines 44-95): the state so far, and the candidates and command groups
BeforeCommands(st0, file, wt, ok) ==
    LET cfg == loadConfig(file)
        st1 == [st0 EXCEPT !.config = cfg]
        git == getGitDirtyFiles(wt, ok)
        st2 == pruneCleanFromTracking(
                   pruneMissingFromTracking(
                       pruneDeletedFromTracking(st1, git.deleted), wt),
                   git.dirty)
        candidates == SelectSeq(st2.modifiedFiles, LAMBDA f : SetHas(git.dirty, f))
        groups == groupFilesByCommand(candidates, Get(cfg))
        Return(outcome, st) ==
            [outcome |-> outcome, state |-> st, candidates |-> <<>>, groups |-> <<>>]
    IN  IF IsNone(cfg) THEN Return("noConfig", st1)
        ELSE IF Len(st1.modifiedFiles) = 0 THEN Return("noFiles", st1)
        ELSE IF ~shouldTrigger(st1, Get(cfg)) THEN Return("belowThreshold", st1)
        ELSE IF Len(candidates) = 0
             THEN Return("noCandidates",
                         ResetCounters([st2 EXCEPT !.modifiedFiles = <<>>]))
        ELSE IF Len(groups) = 0
             THEN Return("noGroups",
                         ResetCounters(
                             [st2 EXCEPT !.modifiedFiles =
                                 SelectSeq(@, LAMBDA f : ~SetHas(candidates, f))]))
        ELSE [outcome |-> "run", state |-> st2, candidates |-> candidates,
              groups |-> groups]

\* runBackpressureCheck from the run of the commands on (lines 106-176)
AfterCommands(st2, tm, ctx, candidates, groups, wt, failing, wtAfter, rewritten, resized, ok) ==
    LET snapshotBefore == buildSnapshot(wt, candidates, {}, {})
        ran == runCommands(groups, failing)
        snapshotAfter == buildSnapshot(wtAfter, candidates, rewritten, resized)
        git == getGitDirtyFiles(wtAfter, ok)
        st3 == pruneMissingFromTracking(
                   pruneDeletedFromTracking(st2, git.deleted), wtAfter)
        discarded == pruneCleanFromTracking(st3, git.dirty)
        passed == ResetCounters(
                      pruneCleanFromTracking(
                          [st3 EXCEPT !.modifiedFiles =
                              SelectSeq(@, LAMBDA f : ~SetHas(candidates, f))],
                          git.dirty))
        failed == ResetCounters(pruneCleanFromTracking(st3, git.dirty))
        rescheduled == scheduleBackpressure(Backpressure(discarded, tm, <<>>), ctx)
    IN  IF snapshotChanged(snapshotBefore, snapshotAfter)
        THEN [state |-> IF Len(discarded.modifiedFiles) > 0
                        THEN rescheduled.state
                        ELSE discarded,
              timers |-> IF Len(discarded.modifiedFiles) > 0
                         THEN rescheduled.timers
                         ELSE tm,
              calls |-> IF Len(discarded.modifiedFiles) > 0
                        THEN rescheduled.calls
                        ELSE <<>>,
              check |-> Checked("discarded", candidates, ran.executed, git.dirty,
                                <<>>, <<>>)]
        ELSE IF ran.passed
        THEN [state |-> passed, timers |-> tm, calls |-> <<>>,
              check |-> Checked("passed", candidates, ran.executed, git.dirty,
                                <<>>, <<"info">>)]
        ELSE [state |-> failed, timers |-> tm, calls |-> <<>>,
              check |-> Checked("failed", candidates, ran.executed, git.dirty,
                                <<Message(ran.errors)>>, <<"error">>)]

\* ---- the handlers of the extension and the debounce timer ----
otelVars == <<globalFile, projectFile, rawVars, ctxModel, env, fault, spanLimit, fnVars, config,
              projectConfigApplied, ctlVars, expVars, toolCallEvents, matchedErrors, lastEvent>>

\* String.prototype.toLowerCase, for the tool names of the model
toLowerCase(name) == IF name = "Bash" THEN "bash" ELSE name
\* event.input.path of a write or edit result
InputPaths == {None} \cup {Some(f) : f \in Files}

BackpressureSessionStart ==
    /\ state' = [state EXCEPT !.config = loadConfig(bpFile)]
    /\ lastCheck' = NoCheck
    /\ bashEvents' = [bashEvents EXCEPT !.result = None]
    /\ UNCHANGED <<bpFile, worktree, bpTimers, burst, hostInputs, otelVars>>

BackpressureToolCall ==
    /\ \E toolName \in hostInputs.tools, callId \in hostInputs.callIds,
          ok \in BOOLEAN :
          IF toLowerCase(toolName) = "bash"
          THEN /\ state' = [state EXCEPT !.bashStateByCallId =
                               SetAttr(@, callId,
                                       getGitDirtyFiles(worktree, ok).dirty)]
               /\ bashEvents' =
                      [snapshots |-> SetAttr(bashEvents.snapshots, callId,
                                             getGitDirtyFiles(worktree, ok).dirty),
                       result |-> None]
          ELSE /\ UNCHANGED state
               /\ bashEvents' = [bashEvents EXCEPT !.result = None]
    /\ lastCheck' = NoCheck
    /\ UNCHANGED <<bpFile, worktree, bpTimers, burst, hostInputs, otelVars>>

\* faulty variant: the result is compared with the snapshot taken last
BashResult_LastSnapshot(bp, callId, git, ctx) ==
    LET st == bp.state
        taken == DOMAIN st.bashStateByCallId
        before == IF taken # {}
                  THEN st.bashStateByCallId[CHOOSE k \in taken : TRUE] ELSE <<>>
        st1 == [st EXCEPT !.bashStateByCallId =
                   [k \in DOMAIN @ \ {callId} |-> @[k]]]
        st2 == pruneDeletedFromTracking(st1, git.deleted)
        newFiles == SelectSeq(git.dirty, LAMBDA f : ~SetHas(before, f))
        Tracked[n \in 0..Len(newFiles)] ==
            IF n = 0 THEN st2 ELSE trackFile(Tracked[n - 1], newFiles[n])
    IN  IF Len(newFiles) > 0
        THEN scheduleBackpressure(
                 Backpressure(Tracked[Len(newFiles)], bp.timers, bp.calls), ctx)
        ELSE Backpressure(st2, bp.timers, bp.calls)

\* the bash branch of the tool_result handler
BashResult(bp, callId, git, ctx) ==
    LET st == bp.state
        before == IF HasAttr(st.bashStateByCallId, callId)
                  THEN st.bashStateByCallId[callId] ELSE <<>>
        st1 == [st EXCEPT !.bashStateByCallId =
                   [k \in DOMAIN @ \ {callId} |-> @[k]]]
        st2 == pruneDeletedFromTracking(st1, git.deleted)
        newFiles == SelectSeq(git.dirty, LAMBDA f : ~SetHas(before, f))
        Tracked[n \in 0..Len(newFiles)] ==
            IF n = 0 THEN st2 ELSE trackFile(Tracked[n - 1], newFiles[n])
    IN  IF Len(newFiles) > 0
        THEN scheduleBackpressure(
                 Backpressure(Tracked[Len(newFiles)], bp.timers, bp.calls), ctx)
        ELSE Backpressure(st2, bp.timers, bp.calls)

BackpressureToolResult ==
    /\ \E name \in hostInputs.tools, callId \in hostInputs.callIds,
          path \in InputPaths, ok \in BOOLEAN, ctx \in hostInputs.ctxs :
          LET toolName == toLowerCase(name)
              git == getGitDirtyFiles(worktree, ok)
              bp == Backpressure(state, bpTimers, burst)
              after ==
                  IF toolName \in {"write", "edit"}
                  THEN IF IsSome(path) /\ Len(Get(path)) > 0
                       THEN scheduleBackpressure(
                                Backpressure(
                                    pruneDeletedFromTracking(
                                        trackFile(state, Get(path)), git.deleted),
                                    bpTimers, burst),
                                ctx)
                       ELSE bp
                  ELSE IF toolName # "bash"
                  THEN bp
                  ELSE BashResult(bp, callId, git, ctx)
          IN  /\ state' = after.state
              /\ bpTimers' = after.timers
              /\ burst' = after.calls
              /\ bashEvents' =
                     IF toolName = "bash"
                     THEN [snapshots |-> [k \in DOMAIN bashEvents.snapshots
                                             \ {callId} |->
                                             bashEvents.snapshots[k]],
                           result |-> Some([callId |-> callId,
                                            dirty |-> git.dirty,
                                            deleted |-> git.deleted])]
                     ELSE [bashEvents EXCEPT !.result = None]
    /\ state'.modificationCount <= MaxModifications
    /\ lastCheck' = NoCheck
    /\ UNCHANGED <<bpFile, worktree, hostInputs, otelVars>>

\* the callback of the debounce timer
DebounceTimerFires ==
    /\ \E timer \in bpTimers :
        LET st0 == [state EXCEPT !.debounceTimer = None, !.pendingCtx = None]
            tm0 == bpTimers \ {timer}
            latest == state.pendingCtx
        IN  IF IsNone(latest)
            THEN /\ state' = st0
                 /\ bpTimers' = tm0
                 /\ burst' = <<>>
                 /\ lastCheck' = NoCheck
                 /\ UNCHANGED worktree
            ELSE \E ok \in BOOLEAN :
                    \E b \in {BeforeCommands(st0, bpFile, worktree, ok)} :
                        IF b.outcome # "run"
                        THEN /\ state' = b.state
                             /\ bpTimers' = tm0
                             /\ burst' = <<>>
                             /\ lastCheck' = [Skipped(b.outcome) EXCEPT
                                                 !.ctx = latest, !.calls = burst]
                             /\ UNCHANGED worktree
                        ELSE \E failing \in SUBSET (1..Len(b.groups)),
                                wtAfter \in [Files -> Statuses],
                                rewritten \in SUBSET Elements(b.candidates),
                                resized \in SUBSET (Elements(b.candidates)
                                                       \cap hostInputs.resizable),
                                okAfter \in BOOLEAN :
                                \E a \in {AfterCommands(b.state, tm0, Get(latest),
                                                       b.candidates, b.groups,
                                                       worktree, failing, wtAfter,
                                                       rewritten, resized,
                                                       okAfter)} :
                                    /\ state' = a.state
                                    /\ bpTimers' = a.timers
                                    /\ burst' = a.calls
                                    /\ lastCheck' = [a.check EXCEPT
                                                        !.ctx = latest,
                                                        !.calls = burst,
                                                        !.rewritten = rewritten,
                                                        !.resized = resized]
                                    /\ worktree' = wtAfter
    /\ bashEvents' = [bashEvents EXCEPT !.result = None]
    /\ UNCHANGED <<bpFile, hostInputs, otelVars>>

\* environment: a tool or the user changes a file
WorktreeChanges ==
    /\ \E f \in Files, s \in Statuses :
          /\ worktree[f] # s
          /\ worktree' = [worktree EXCEPT ![f] = s]
    /\ lastCheck' = NoCheck
    /\ bashEvents' = [bashEvents EXCEPT !.result = None]
    /\ UNCHANGED <<bpFile, state, bpTimers, burst, hostInputs, otelVars>>

InitBackpressure ==
    /\ globalFile = None
    /\ projectFile = None
    /\ env = NoEnv
    /\ fault = "none"
    /\ spanLimit = MaxSpans
    /\ call = NoCall
    /\ result = None
    /\ config = loadInitialConfig(globalFile, env)
    /\ InitEmpty
    /\ SettingsAsLoaded
    /\ ctxModel = None
    /\ bpFile \in BackpressureFiles
    /\ state = createBackpressureState
    /\ worktree = [f \in Files |-> "clean"]
    /\ lastCheck = NoCheck
    /\ bpTimers = {}
    /\ burst = <<>>
    /\ bashEvents = NoBashEvents
    /\ hostInputs = [ctxs |-> {Ctx}, callIds |-> {"c1"}, resizable |-> {},
                     tools |-> BackpressureTools]

NextBackpressure ==
    \/ BackpressureSessionStart
    \/ BackpressureToolCall
    \/ BackpressureToolResult
    \/ DebounceTimerFires
    \/ WorktreeChanges

SpecBackpressure == InitBackpressure /\ [][NextBackpressure]_vars


\* ---- C21 ----
\* the commands were run: the check got past the grouping of the files
CommandsRan == lastCheck.outcome \in {"passed", "failed", "discarded"}
\* the indexes of the rules whose glob matches the file
MatchingRules(f, rules) == {i \in 1..Len(rules) : globMatch(f, rules[i].glob)}
\* the commands of the first rule matching the file, as a set
FirstRuleCommands(f, rules) ==
    IF MatchingRules(f, rules) = {} THEN {}
    ELSE LET first == CHOOSE i \in MatchingRules(f, rules) :
                          \A j \in MatchingRules(f, rules) : i <= j
         IN  {rules[first].commands[k] : k \in 1..Len(rules[first].commands)}
\* the commands executed with the file among their arguments
CommandsRunOn(f) ==
    {lastCheck.executed[i].command :
        i \in {j \in 1..Len(lastCheck.executed) : SetHas(lastCheck.executed[j].files, f)}}

\* C21: when a check runs its commands, every candidate file is passed to
\* exactly the commands of the first rule, in configuration order, whose glob
\* matches it: all of them, no command of another rule, and no command at
\* all when no rule matches.
C21_FirstMatchingRuleApplies ==
    CommandsRan =>
        \A f \in Elements(lastCheck.candidates) :
            CommandsRunOn(f) = FirstRuleCommands(f, Get(state.config).rules)


\* ---- C22 ----
\* C22: when a check has run its commands, all of them passed and no
\* candidate file changed during the run, nothing is tracked any more
\* (modifiedFiles and touchedFiles are empty, modificationCount is 0) and no
\* message was sent to the agent.
C22_PassClearsBuffer ==
    lastCheck.outcome = "passed" =>
        /\ state.modifiedFiles = <<>>
        /\ state.touchedFiles = <<>>
        /\ state.modificationCount = 0
        /\ lastCheck.sent = <<>>

\* a passing check of two files, run because two files were touched
C22_Witness ==
    /\ lastCheck.outcome = "passed"
    /\ Len(lastCheck.candidates) = 2
    /\ Len(lastCheck.executed) >= 1
    /\ state.modifiedFiles = <<>>

\* ---- C23 ----
\* the candidates that the git status read after the run still lists as dirty
StillDirty == SelectSeq(lastCheck.candidates, LAMBDA f : SetHas(lastCheck.dirtyAfter, f))

\* C23: when a check has run its commands, at least one failed and no
\* candidate file changed during the run, modifiedFiles holds exactly the
\* candidates still dirty, modificationCount is 0, touchedFiles is empty, and
\* exactly one message, carrying the errors and triggering a turn, was sent
\* to the agent.
C23_FailKeepsDirtyFiles ==
    lastCheck.outcome = "failed" =>
        /\ state.modifiedFiles = StillDirty
        /\ state.modificationCount = 0
        /\ state.touchedFiles = <<>>
        /\ Len(lastCheck.sent) = 1
        /\ lastCheck.sent[1].triggerTurn
        /\ lastCheck.sent[1].content # <<>>

\* a failing check after which one candidate is kept and one, clean by now,
\* is dropped
C23_Witness ==
    /\ lastCheck.outcome = "failed"
    /\ Len(lastCheck.candidates) = 2
    /\ Len(state.modifiedFiles) = 1
    /\ worktree[state.modifiedFiles[1]] = "dirty"
    /\ Len(lastCheck.sent) = 1


(***************************************************************************)
(* The export queue under batch sizes 1 and 3 and every delivery fault     *)
(***************************************************************************)
QueueGlobalFiles ==
    {Some(FileConfig(Some(e), None, Some(b), None)) :
        e \in {Str_fileD, Str_httpA}, b \in {1, 3}}

InitQueue ==
    /\ BackpressureIdle
    /\ globalFile \in QueueGlobalFiles
    /\ projectFile = None
    /\ env = NoEnv
    /\ spanLimit = MaxSpans
    /\ call = NoCall
    /\ result = None
    /\ config = loadInitialConfig(globalFile, env)
    /\ fault \in ApplicableFailures(config.destination.type)
    /\ InitEmpty
    /\ SettingsAsLoaded
    /\ ctxModel = None

NextQueue ==
    \/ SessionStart
    \/ AgentEnd
    \/ TurnStart
    \/ TurnEnd
    \/ SessionShutdown
    \/ HandleSignal
    \/ FlushTimerFires
    \/ DeliverySettles

SpecQueue == InitQueue /\ [][NextQueue]_vars

\* ---- C24 ----
\* between events: at most one timer is outstanding, it is the one
\* flushTimer holds, one is pending exactly when the queue is non-empty, and
\* the pending one was set by the bufferSpan call that queued the oldest
\* span still in the queue (no later call set or reset one)
TimerMatchesQueue ==
    /\ Cardinality(timers) <= 1
    /\ flushTimer <=> timers # {}
    /\ timers # {} <=> spanBuffer # <<>>
    /\ timers # {} => timers = {Len(buffered) - Len(spanBuffer) + 1}
\* the timer callback, and the handlers that end in flush() or flushSync(),
\* leave the queue empty and no timer pending
DrainedAfterFlush ==
    (FlushTimerFires \/ HandleSignal \/ SessionShutdown) =>
        spanBuffer' = <<>> /\ timers' = {} /\ ~flushTimer'

\* C24: the exporter has at most one flush timer outstanding, and between
\* events a timer is pending exactly when the queue is non-empty: bufferSpan
\* sets a timer only when none is pending and never resets a pending one,
\* and flush(), flushSync() and the timer callback each leave the queue empty
\* with no timer pending.
C24_OneFlushTimer == []TimerMatchesQueue /\ [][DrainedAfterFlush]_vars

\* two spans wait in the queue under the timer set for the first of them
C24_Witness ==
    /\ Len(spanBuffer) = 2
    /\ timers = {Len(buffered) - 1}


\* ---- C25 ----
\* the span ids of all drained batches, in drain order
DrainedSpanIds ==
    LET Joined[n \in 0..Len(drained)] ==
            IF n = 0 THEN <<>> ELSE Joined[n - 1] \o drained[n].spans
    IN  Joined[Len(drained)]
\* the drained batches followed by the queue are the bufferSpan calls, in order
DrainsPartitionBuffered ==
    DrainedSpanIds \o SpanIdsOf(spanBuffer) = SpanIdsOf(buffered)
\* when a delivery settles, failed or not, no span comes back into the queue
\* and no batch changes
SettledBatchesStayOut ==
    DeliverySettles =>
        /\ spanBuffer' = spanBuffer
        /\ Len(drained') = Len(drained)
        /\ \A i \in 1..Len(drained) : drained'[i].spans = drained[i].spans

\* C25: every span passed to bufferSpan is taken out of the queue in exactly
\* one batch, and the batches in drain order, joined, are the sequence of
\* bufferSpan calls; a batch whose delivery failed is dropped and never
\* queued again, so after a drain the queue holds only spans buffered after it.
C25_DrainedOnceInOrder ==
    []DrainsPartitionBuffered /\ [][SettledBatchesStayOut]_vars

\* the delivery of the first batch failed, and the queue holds only the span
\* buffered since
C25_Witness ==
    /\ fault # "none"
    /\ Len(drained) = 1
    /\ drained[1].attempts = 1
    /\ inflight = {}
    /\ Len(spanBuffer) = 1
    /\ Len(buffered) = Len(drained[1].spans) + 1


\* ---- C26 ----
\* C26: spans are buffered children first: every buffered span that names a
\* parent was buffered before that parent (a tool span before its Turn span,
\* a Turn, tool or Input span before the Thread span of its trace).
C26_ChildrenBufferedFirst ==
    \A i, j \in 1..Len(buffered) :
        (/\ IsSome(buffered[j].parentSpanId)
         /\ Get(buffered[j].parentSpanId) = buffered[i].spanId) => j < i


(***************************************************************************)
(* The span tree, with input events and room for a Thread, an Input, a     *)
(* Turn and a tool span                                                    *)
(***************************************************************************)
InitTrace ==
    /\ BackpressureIdle
    /\ globalFile \in LifecycleGlobalFiles
    /\ projectFile \in LifecycleProjectFiles
    /\ env = NoEnv
    /\ fault = "none"
    /\ spanLimit = MaxSpans + 1
    /\ call = NoCall
    /\ result = None
    /\ config = loadInitialConfig(globalFile, env)
    /\ InitEmpty
    /\ SettingsAsLoaded
    /\ ctxModel = None

NextTrace ==
    \/ SessionSwitch
    \/ Input
    \/ AgentStart
    \/ TurnStart
    \/ TurnEnd
    \/ ToolCall
    \/ SessionShutdown

SpecTrace == InitTrace /\ [][NextTrace]_vars

\* ---- C27 ----
\* the spans the controller holds open, and the trace ids in use
OpenSpans ==
    (IF IsSome(currentThreadSpan) THEN {Get(currentThreadSpan)} ELSE {})
        \cup {openTurns[i].span : i \in 1..Len(openTurns)}
        \cup {openToolSpans[i].span : i \in 1..Len(openToolSpans)}
TraceIdsInUse ==
    {sp.traceId : sp \in OpenSpans} \cup {buffered[i].traceId : i \in 1..Len(buffered)}
\* sp is a child of the Thread span t
ChildOfThread(sp, t) ==
    sp.traceId = t.traceId /\ sp.parentSpanId = Some(t.spanId)

\* a turn_start opens a Turn span under the open Thread span
NewTurnUnderThread ==
    Len(openTurns') = Len(openTurns) + 1 =>
        /\ IsSome(currentThreadSpan)
        /\ ChildOfThread(openTurns'[Len(openTurns')].span, Get(currentThreadSpan))
\* an agent_start buffers an Input span under the Thread span then open
NewInputUnderThread ==
    \A i \in (Len(buffered) + 1)..Len(buffered') :
        buffered'[i].name = "Input" =>
            /\ IsSome(currentThreadSpan')
            /\ ChildOfThread(buffered'[i], Get(currentThreadSpan'))
\* a tool_call opens a tool span under the most recently opened turn, in the
\* trace of the open Thread span
NewToolUnderTurn ==
    \A i \in 1..Len(openToolSpans') :
        openToolSpans'[i].span.spanId >= nextId =>
            /\ openTurns # <<>>
            /\ IsSome(currentThreadSpan)
            /\ openToolSpans'[i].span.parentSpanId =
                   Some(openTurns[Len(openTurns)].span.spanId)
            /\ openToolSpans'[i].span.traceId = openTurns[Len(openTurns)].span.traceId
            /\ openToolSpans'[i].span.traceId = Get(currentThreadSpan).traceId
\* a new Thread span gets a trace id no span had before
NewThreadFreshTrace ==
    (/\ IsSome(currentThreadSpan')
     /\ Get(currentThreadSpan').spanId >= nextId) =>
        Get(currentThreadSpan').traceId \notin TraceIdsInUse

\* C27: every Turn, Input and tool span carries the trace id of the Thread
\* span open when it was created; a Turn or Input span has that Thread span
\* as parent, a tool span the most recently opened turn; and every
\* thread-begin draws a trace id not used before.
C27_SpanTree ==
    [][/\ NewTurnUnderThread
       /\ NewInputUnderThread
       /\ NewToolUnderTurn
       /\ NewThreadFreshTrace]_vars

\* an Input span is buffered, and a tool span is open under an open turn of
\* the same thread
C27_Witness ==
    /\ \E i \in 1..Len(buffered) : buffered[i].name = "Input"
    /\ openTurns # <<>>
    /\ openToolSpans # <<>>
    /\ openToolSpans[1].span.parentSpanId = Some(openTurns[1].span.spanId)

(***************************************************************************)
(* Settings files that fail to load                                        *)
(***************************************************************************)
Str_20 == <<"2", "0">>

\* settings files: absent, unreadable, no JSON, no record, no section, a
\* section that is no record, and sections whose export, headers and batchSize
\* are each absent, well typed or wrongly typed
LayerSettings(url, header, size) ==
    {Missing, Unreadable, InvalidJson, Json(JArr), Json(JObj(<<>>)),
     Json(JObj(<<Entry(CONFIG_KEY, JStr(url))>>))}
    \cup
    {Settings(e \o h \o b) :
        e \in {<<>>, <<Entry("export", JStr(url))>>,
               <<Entry("export", JNum(5))>>, <<Entry("export", JNull)>>},
        h \in {<<>>,
               <<Entry("headers", JObj(<<Entry("Authorization", JStr(header))>>))>>,
               <<Entry("headers", JObj(<<Entry("Authorization", JNum(1))>>))>>},
        b \in {<<>>, <<Entry("batchSize", JNum(size))>>,
               <<Entry("batchSize", JStr(Str_20))>>}}

LayerEnvs == {NoEnv, [NoEnv EXCEPT !.BATCH_SIZE = Some(Str_5)]}

InitLayers ==
    /\ BackpressureIdle
    /\ globalSettings \in LayerSettings(Str_httpA, "g", 20)
    /\ projectSettings \in LayerSettings(Str_httpB, "p", 7)
    /\ globalFile = loadFileConfig(globalSettings)
    /\ projectFile = loadFileConfig(projectSettings)
    /\ env \in LayerEnvs
    /\ fault = "none"
    /\ spanLimit = MaxSpans
    /\ call = NoCall
    /\ result = None
    /\ config = loadInitialConfig(globalFile, env)
    /\ InitEmpty
    /\ ctxModel = None

NextLayers ==
    \/ SessionStart
    \/ SessionShutdown

SpecLayers == InitLayers /\ [][NextLayers]_vars

\* the types the settings section's fields must have
FieldTypes ==
    [export |-> "string", headers |-> "object", timeout |-> "number",
     batchSize |-> "number", flushIntervalMs |-> "number"]

\* a field of the section that has not the type it must have
WrongTyped(entry) ==
    /\ entry.key \in DOMAIN FieldTypes
    /\ \/ entry.value.type # FieldTypes[entry.key]
       \/ /\ entry.key = "headers"
          /\ \E i \in 1..Len(entry.value.entries) :
                 entry.value.entries[i].value.type # "string"

\* the file is unreadable, is no JSON, or has a wrongly typed field in its
\* section
Rejected(settings) ==
    \/ settings.file \in {"unreadable", "invalid"}
    \/ /\ settings.file = "json"
       /\ settings.parsed.type = "object"
       /\ \E i \in 1..Len(settings.parsed.entries) :
              /\ settings.parsed.entries[i].key = CONFIG_KEY
              /\ settings.parsed.entries[i].value.type = "object"
              /\ \E j \in 1..Len(settings.parsed.entries[i].value.entries) :
                     WrongTyped(settings.parsed.entries[i].value.entries[j])

\* the configuration resolved from the defaults, the two file layers and the
\* environment
Resolved(g, p, e) ==
    LET c1 == IF IsSome(g) THEN mergeFileConfig(DefaultConfig, Get(g))
              ELSE DefaultConfig
        c2 == IF IsSome(p) THEN mergeFileConfig(c1, Get(p)) ELSE c1
    IN  applyEnvOverrides(c2, e)

\* C28: a settings file that is unreadable, is no JSON or has a wrongly typed
\* field in its section is skipped as a whole: the configuration is the one
\* resolved without that file, from the other layers, and no error reaches the
\* host.
C28_RejectedLayerSkipped ==
    ConfigSettled =>
        /\ Rejected(globalSettings) =>
               config = Resolved(None, ProjectLayer, env)
        /\ Rejected(projectSettings) =>
               config = Resolved(globalFile, None, env)
        /\ Rejected(globalSettings) \/ Rejected(projectSettings) =>
               hostErrors = {}

\* a session has started with a global file whose export is well typed and whose
\* batchSize is not, and a valid project file: the project file's destination
\* and the default batch size are in force
C28_Witness ==
    /\ projectConfigApplied
    /\ globalSettings = Settings(<<Entry("export", JStr(Str_httpA)),
                                   Entry("batchSize", JStr(Str_20))>>)
    /\ projectSettings = Settings(<<Entry("export", JStr(Str_httpB))>>)
    /\ env = NoEnv
    /\ config.destination.type = "http"
    /\ config.batchSize = DefaultBatchSize

(***************************************************************************)
(* Events that find no thread open                                         *)
(***************************************************************************)
NoThreadOpen == IsNone(currentThreadSpan) \/ IsNone(currentThreadRollup)

\* the turn on top of the stack after the step is new and a child of the
\* Thread span held after the step
TurnOpenedUnderThread ==
    /\ Len(openTurns') = Len(openTurns) + 1
    /\ openTurns'[Len(openTurns')].span.parentSpanId =
           Some(Get(currentThreadSpan').spanId)

\* C29: an agent_start or a turn_start handled with no thread open starts a
\* thread: afterwards a Thread span and a thread rollup are held, and the turn
\* opened by the turn_start is a child of that Thread span.
C29_ImplicitThreadStart ==
    [][NoThreadOpen /\ (AgentStart \/ TurnStart) =>
           /\ IsSome(currentThreadSpan')
           /\ IsSome(currentThreadRollup')
           /\ TurnStart => TurnOpenedUnderThread]_vars

(***************************************************************************)
(* The state a shutdown leaves                                             *)
(***************************************************************************)
\* no thread, no open turn or tool call, no captured input, nothing queued for
\* export and no flush timer
NoThread ==
    /\ currentThreadSpan = None
    /\ currentThreadRollup = None
    /\ openTurns = <<>>
    /\ openToolSpans = <<>>
    /\ capturedInput = None
    /\ spanBuffer = <<>>
    /\ ~flushTimer
    /\ timers = {}

\* C30: whatever the state a session_shutdown is handled in, afterwards no
\* Thread span and no thread rollup are held, no turn and no tool call is open,
\* the captured input is cleared, the span buffer is empty and no flush timer
\* is pending.
C30_ShutdownLeavesNoThread == [][SessionShutdown => NoThread']_vars

\* a shutdown has closed a thread with an open turn, after an Input span was
\* buffered for it, and has drained the queue synchronously
C30_Witness ==
    /\ lastEvent = "session_shutdown"
    /\ NoThread
    /\ drained # <<>>
    /\ drained[Len(drained)].path = "sync"
    /\ \E i, j, k \in DOMAIN buffered :
          /\ buffered[i].name = "Input"
          /\ buffered[j].name = "Turn"
          /\ buffered[k].name = "Thread"
          /\ buffered[k].spanId \in
                 {drained[Len(drained)].spans[n] :
                      n \in DOMAIN drained[Len(drained)].spans}

(***************************************************************************)
(* Model switches                                                          *)
(***************************************************************************)
MaxSwitches == 2

Model(provider, id) == [provider |-> provider, id |-> id]
\* model ids often hold a "/"; the provider is a free string
Models ==
    {Model(<<"a">>, <<"c">>),
     Model(<<"a">>, <<"b", "/", "c">>),
     Model(<<"a", "/", "b">>, <<"c">>)}

\* the host has changed its model and the extension has not looked at
\* ctx.model since
UnseenChange ==
    IsSome(currentThreadSpan) /\ IsSome(currentThreadRollup) /\ lastModel # ctxModel

\* what a change of ctx.model to m adds to the changes of the open thread
ChangesWith(m) ==
    IF /\ IsSome(currentThreadSpan) /\ IsSome(currentThreadRollup)
       /\ IsSome(ctxModel) /\ Get(ctxModel) # m
    THEN modelChanges + 1 ELSE modelChanges

\* model_select: the host takes the model event.model and reports it, with the
\* model it had as event.previousModel
ModelSelect ==
    /\ registered
    /\ ~UnseenChange
    /\ \E m \in Models :
        /\ ChangesWith(m) <= MaxSwitches
        /\ ctxModel' = Some(m)
        /\ modelChanges' = ChangesWith(m)
        /\ IF IsNone(currentThreadRollup)
           THEN UNCHANGED <<currentThreadRollup, currentThreadSpan, lastModel>>
           ELSE /\ currentThreadRollup' =
                       Some([Get(currentThreadRollup) EXCEPT
                                !.modelSwitchCount =
                                    IF /\ IsSome(ctxModel)
                                       /\ modelKey(Get(ctxModel).provider,
                                                   Get(ctxModel).id)
                                          # modelKey(m.provider, m.id)
                                    THEN @ + 1 ELSE @])
                /\ lastModel' = Some(m)
                /\ currentThreadSpan' =
                       IF IsSome(currentThreadSpan)
                       THEN Some(ModelAttributes(Get(currentThreadSpan),
                                                 "model.provider", "model.id",
                                                 Some(m)))
                       ELSE currentThreadSpan
    /\ lastEvent' = Other
    /\ UNCHANGED <<globalFile, projectFile, rawVars, env, fault, spanLimit, fnVars,
                   bpVars, config, projectConfigApplied, registered, openTurns,
                   openToolSpans, capturedInput, detachedRollups, nextId, expVars,
                   toolCallEvents, matchedErrors>>

\* the host changes its model without a model_select event
HostModelChanges ==
    /\ registered
    /\ ~UnseenChange
    /\ \E m \in Models :
        /\ Some(m) # ctxModel
        /\ ChangesWith(m) <= MaxSwitches
        /\ ctxModel' = Some(m)
        /\ modelChanges' = ChangesWith(m)
    /\ UNCHANGED <<globalFile, projectFile, rawVars, env, fault, spanLimit, fnVars,
                   bpVars, config, projectConfigApplied, registered,
                   currentThreadSpan, currentThreadRollup, openTurns,
                   openToolSpans, capturedInput, detachedRollups, nextId,
                   lastModel, expVars, toolCallEvents, matchedErrors, lastEvent>>

InitModel ==
    /\ BackpressureIdle
    /\ globalFile \in LifecycleGlobalFiles
    /\ projectFile \in LifecycleProjectFiles
    /\ env = NoEnv
    /\ fault = "none"
    /\ spanLimit = MaxSpans - 1
    /\ call = NoCall
    /\ result = None
    /\ config = loadInitialConfig(globalFile, env)
    /\ InitEmpty
    /\ SettingsAsLoaded
    /\ ctxModel \in {None} \cup {Some(m) : m \in Models}

NextModel ==
    \/ SessionStart
    \/ AgentStart
    \/ TurnStart
    \/ ModelSelect
    \/ HostModelChanges
    \/ SessionShutdown

SpecModel == InitModel /\ [][NextModel]_vars

\* the Thread spans buffered by the step
ThreadSpansBuffered ==
    {i \in (Len(buffered) + 1)..Len(buffered') : buffered'[i].name = "Thread"}

\* the rollup counts the changes of the model since the thread started
SwitchCountIsChanges ==
    ThreadOpen /\ ~UnseenChange =>
        Get(currentThreadRollup).modelSwitchCount = modelChanges

\* the Thread span leaves with that count
SwitchCountExported ==
    ThreadOpen /\ ~UnseenChange =>
        \A i \in ThreadSpansBuffered :
            buffered'[i].attributes["model.switch_count"].intValue =
                NumberToString(modelChanges)

\* C31: model.switch_count on the Thread span is the number of times the
\* (provider, id) pair of the model changed during the thread, a change of
\* either component being one switch, whether seen at a turn_start or reported
\* by a model_select and seen again at the next turn_start.
C31_ModelSwitchCount ==
    []SwitchCountIsChanges /\ [][SwitchCountExported]_vars

(***************************************************************************)
(* Captured input                                                          *)
(***************************************************************************)
InitInput ==
    /\ BackpressureIdle
    /\ globalFile \in LifecycleGlobalFiles
    /\ projectFile \in LifecycleProjectFiles
    /\ env = NoEnv
    /\ fault = "none"
    /\ spanLimit = MaxSpans
    /\ call = NoCall
    /\ result = None
    /\ config = loadInitialConfig(globalFile, env)
    /\ InitEmpty
    /\ SettingsAsLoaded
    /\ ctxModel = None

NextInput ==
    \/ SessionStart
    \/ Input
    \/ AgentStart
    \/ AgentEnd
    \/ SessionSwitch
    \/ SessionShutdown

SpecInput == InitInput /\ [][NextInput]_vars

\* the Input spans buffered by the step
InputSpansBuffered ==
    {i \in (Len(buffered) + 1)..Len(buffered') : buffered'[i].name = "Input"}

\* an agent_start that finds captured input buffers one Input span for it
CapturedInputExported ==
    AgentStart /\ IsSome(capturedInput) =>
        /\ Cardinality(InputSpansBuffered) = 1
        /\ IsSome(currentThreadSpan')
        /\ \A i \in InputSpansBuffered :
              /\ buffered'[i].parentSpanId = Some(Get(currentThreadSpan').spanId)
              /\ buffered'[i].traceId = Get(currentThreadSpan').traceId
              /\ buffered'[i].status.code = StatusCode("ok")
              /\ buffered'[i].attributes["input.source"].stringValue =
                     Get(capturedInput)
        /\ capturedInput' = None

\* no other step buffers an Input span
InputSpanOnlyForCapturedInput ==
    InputSpansBuffered # {} => AgentStart /\ IsSome(capturedInput)

\* the input is kept until an agent_start, an agent_end or the end of the
\* thread
CapturedInputKept ==
    IsSome(capturedInput) /\ capturedInput' # capturedInput =>
        \/ Input /\ IsSome(capturedInput')
        \/ AgentStart \/ AgentEnd \/ SessionSwitch \/ SessionShutdown

MinBatchSize == 1
MinFlushIntervalMs == 100

SchemaFiles ==
    {None} \cup
    {Some(FileConfig(None, None, b, f)) :
        b \in {None, Some(20), Some(0)},
        f \in {None, Some(200), Some(50)}}

SchemaEnvs ==
    {[NoEnv EXCEPT !.BATCH_SIZE = b, !.FLUSH_INTERVAL = f] :
        b \in {None, Some(Str_5)},
        f \in {None, Some(Str_300), Some(Str_5)}}

InitSchema ==
    /\ BackpressureIdle
    /\ globalFile \in SchemaFiles
    /\ projectFile \in SchemaFiles
    /\ env \in SchemaEnvs
    /\ fault = "none"
    /\ spanLimit = MaxSpans
    /\ call = NoCall
    /\ result = None
    /\ config = loadInitialConfig(globalFile, env)
    /\ InitEmpty
    /\ SettingsAsLoaded
    /\ ctxModel = None

NextSchema ==
    \/ SessionStart
    \/ SessionShutdown

SpecSchema == InitSchema /\ [][NextSchema]_vars

\* C33: whatever the global file, the project file and the environment
\* supply, the resolved configuration has a batchSize of at least 1 and a
\* flushIntervalMs of at least 100, as TelemetryConfigSchema declares.
C33_ConfigWithinSchema ==
    /\ config.batchSize >= MinBatchSize
    /\ config.flushIntervalMs >= MinFlushIntervalMs

(***************************************************************************)
(* The project layer across sessions                                       *)
(***************************************************************************)
ProjectGlobalFiles == {None, Some(FileConfig(None, None, Some(20), Some(200)))}
\* the project settings of the directories a session may start in
ProjectDirFiles ==
    {None, Some(FileConfig(None, None, Some(7), None)),
     Some(FileConfig(Some(Str_unixS), None, None, Some(300)))}

\* between two sessions the host moves to another directory: ctx.cwd, and with
\* it the project settings file, is another one at the next session_start
CwdChanges ==
    /\ ~projectConfigApplied
    /\ \E p \in ProjectDirFiles :
        /\ p # projectFile
        /\ projectFile' = p
        /\ projectSettings' = SettingsOf(p)
    /\ UNCHANGED <<globalFile, globalSettings, env, fault, spanLimit, fnVars,
                   bpVars, ctxModel, config, projectConfigApplied, ctlVars,
                   expVars, toolCallEvents, matchedErrors, lastEvent>>

InitProject ==
    /\ BackpressureIdle
    /\ globalFile \in ProjectGlobalFiles
    /\ projectFile \in ProjectDirFiles
    /\ env \in LayerEnvs
    /\ fault = "none"
    /\ spanLimit = MaxSpans
    /\ call = NoCall
    /\ result = None
    /\ config = loadInitialConfig(globalFile, env)
    /\ InitEmpty
    /\ SettingsAsLoaded
    /\ ctxModel = None

NextProject ==
    \/ SessionStart
    \/ SessionShutdown
    \/ CwdChanges

SpecProject == InitProject /\ [][NextProject]_vars

\* C34: a session_start of a session whose project layer is applied leaves
\* the configuration as it is; the first session_start after a reset resolves
\* it afresh from the defaults, the global file, the project file of the
\* current directory and the environment, so that nothing of the project file
\* of an earlier directory remains.
C34_ProjectLayerPerSession ==
    [][SessionStart /\ registered =>
          /\ projectConfigApplied'
          /\ config' = IF projectConfigApplied THEN config
                       ELSE Resolved(globalFile, projectFile, env)]_vars

(***************************************************************************)
(* The export queue when timers fire                                       *)
(***************************************************************************)
\* the event loop runs the callback of a pending timer, whether or not the
\* host sends another event
SpecDrain == InitQueue /\ [][NextQueue]_vars /\ WF_vars(FlushTimerFires)

SpanIdRange == 1..(MaxSpans + 1)

Queued(spanId) == \E i \in DOMAIN spanBuffer : spanBuffer[i].spanId = spanId

HandedToDelivery(spanId) ==
    \E i \in DOMAIN drained :
        \E n \in DOMAIN drained[i].spans : drained[i].spans[n] = spanId

\* a queue that has reached batchSize was drained by the bufferSpan call that
\* filled it, and a shorter one waits under the timer set with its first span
QueueBelowBatchSize ==
    /\ Len(spanBuffer) < config.batchSize
    /\ spanBuffer # <<>> => timers = {Len(buffered) - Len(spanBuffer) + 1}

\* C35: a span accepted by bufferSpan is handed to delivery, at once when the
\* queue reaches batchSize and otherwise when the pending flush timer fires,
\* the timer set when the first span of its batch was buffered; no span stays
\* in the queue forever, also when the host sends no further event.
C35_EverySpanDrained ==
    /\ []QueueBelowBatchSize
    /\ \A spanId \in SpanIdRange : Queued(spanId) ~> HandedToDelivery(spanId)

\* the timer has drained a batch of one span under batch size 3: the thread is
\* open and no agent_end, shutdown or signal has flushed
C35_Witness ==
    /\ config.batchSize = 3
    /\ IsSome(currentThreadSpan)
    /\ ~HasAttr(Get(currentThreadSpan).attributes, "aborted")
    /\ spanBuffer = <<>>
    /\ timers = {}
    /\ Len(drained) = 1
    /\ drained[1].path = "async"
    /\ Len(drained[1].spans) = 1

(***************************************************************************)
(* Every opened span is exported once                                      *)
(***************************************************************************)
\* the Turn spans and tool spans that are open
OpenSpanIds ==
    {openTurns[i].span.spanId : i \in DOMAIN openTurns}
    \cup {openToolSpans[i].span.spanId : i \in DOMAIN openToolSpans}

\* a tool_call whose call id is that of a call still open: the claim leaves
\* such sequences out
ReusesOpenCallId ==
    \E i \in DOMAIN openToolSpans, j \in DOMAIN openToolSpans' :
        /\ openToolSpans[i].callId = openToolSpans'[j].callId
        /\ openToolSpans[i].span.spanId # openToolSpans'[j].span.spanId

\* an open span is in no buffer yet and no span is buffered twice
BufferedAtMostOnce ==
    /\ \A spanId \in OpenSpanIds : Occurrences(buffered, spanId) = {}
    /\ \A i, j \in DOMAIN buffered :
          buffered[i].spanId = buffered[j].spanId => i = j

\* a span that is open before a step and not after it was buffered by the
\* step; by a shutdown or a thread-begin with status error
ClosedSpansBuffered ==
    ~ReusesOpenCallId =>
        \A spanId \in OpenSpanIds \ OpenSpanIds' :
            /\ Cardinality(Occurrences(buffered', spanId)) = 1
            /\ lastEvent' \in ThreadBeginEvents \cup {"session_shutdown"} =>
                   \A i \in Occurrences(buffered', spanId) :
                       buffered'[i].status.code = StatusCode("error")

\* C36: with distinct call ids for the open tool calls, every Turn span and
\* every tool span that was opened is buffered exactly once: when its
\* turn_end or tool_result is handled, or with status error when its thread
\* ends; none is dropped and none is buffered twice.
C36_NoSpanLostOrDuplicated ==
    []BufferedAtMostOnce /\ [][ClosedSpansBuffered]_vars

(***************************************************************************)
(* tool.error_count counts the matched tool results with the error flag    *)
(***************************************************************************)
MatchedErrorsOf(spanId) ==
    IF spanId \in DOMAIN matchedErrors THEN matchedErrors[spanId] ELSE 0

\* the Thread spans buffered carry the number of matched error results
ThreadErrorCountIsMatched ==
    \A i \in DOMAIN buffered :
        buffered[i].name = "Thread" =>
            IntAttr(buffered[i], "tool.error_count")
                = MatchedErrorsOf(buffered[i].spanId)

\* the spans a step appends to the export history
NewlyBuffered == {i \in DOMAIN buffered' : i > Len(buffered)}

\* a step that ends a thread exports the counters as they were before it,
\* whatever tool spans it closes with status error
ForceClosedNotCounted ==
    lastEvent' \in ThreadBeginEvents \cup {"session_shutdown"} =>
        \A i \in NewlyBuffered :
            /\ buffered'[i].name = "Thread" /\ IsSome(currentThreadRollup) =>
                   IntAttr(buffered'[i], "tool.error_count")
                       = Get(currentThreadRollup).toolErrorCount
            /\ \A k \in DOMAIN openTurns :
                   openTurns[k].span.spanId = buffered'[i].spanId =>
                       IntAttr(buffered'[i], "turn.tool.error_count")
                           = openTurns[k].rollup.toolErrorCount

\* C37: tool.error_count of every exported Thread span is the number of
\* tool-result events with the error flag that found an open tool span while
\* that thread was current, and the tool spans closed with status error when
\* a thread ends add nothing to tool.error_count or turn.tool.error_count.
C37_ErrorCountIsMatchedResults ==
    []ThreadErrorCountIsMatched /\ [][ForceClosedNotCounted]_vars

(***************************************************************************)
(* The debounce of the backpressure check                                  *)
(***************************************************************************)
\* the host hands a different context to different events
InitDebounce ==
    /\ globalFile = None
    /\ projectFile = None
    /\ env = NoEnv
    /\ fault = "none"
    /\ spanLimit = MaxSpans
    /\ call = NoCall
    /\ result = None
    /\ config = loadInitialConfig(globalFile, env)
    /\ InitEmpty
    /\ SettingsAsLoaded
    /\ ctxModel = None
    /\ bpFile = Some(Cfg_Shared)
    /\ state = createBackpressureState
    /\ worktree = [f \in Files |-> "clean"]
    /\ lastCheck = NoCheck
    /\ bpTimers = {}
    /\ burst = <<>>
    /\ bashEvents = NoBashEvents
    /\ hostInputs = [ctxs |-> {"ctx1", "ctx2"}, callIds |-> {"c1"},
                     resizable |-> {}, tools |-> {"write"}]

SpecDebounce == InitDebounce /\ [][NextBackpressure]_vars

\* at most one debounce timer is pending
AtMostOneTimer == Cardinality(bpTimers) <= 1

\* a timer is pending exactly while scheduleBackpressure calls await their
\* check, and the context kept is that of the last of them
PendingTimerIsLatest ==
    /\ bpTimers # {} <=> burst # <<>>
    /\ \A id \in bpTimers : state.debounceTimer = Some(id)
    /\ burst # <<>> => state.pendingCtx = Some(burst[Len(burst)])

\* a step in which a debounce timer fires: only then is a check run and
\* only then do the calls awaiting their check become none
TimerFired == lastCheck'.outcome # "none" \/ (burst # <<>> /\ burst' = <<>>)

\* when the timer fires, one check runs for all the calls made since the
\* last one, with the context of the last call; the only timer pending
\* after it is the one of a discarded run
OneCheckPerBurst ==
    TimerFired =>
        /\ burst # <<>>
        /\ lastCheck'.outcome # "none"
        /\ lastCheck'.ctx = Some(burst[Len(burst)])
        /\ IF lastCheck'.outcome = "discarded" /\ state'.modifiedFiles # <<>>
           THEN burst' = <<burst[Len(burst)]>>
           ELSE burst' = <<>> /\ bpTimers' = {}

\* C38: at most one backpressure timer is pending, it is the one set by the
\* last scheduleBackpressure call, and when it fires exactly one check runs
\* for the whole burst of calls, with the context of the last of them.
C38_ResettingDebounce ==
    [](AtMostOneTimer /\ PendingTimerIsLatest) /\ [][OneCheckPerBurst]_vars

\* a check has run for a burst of two tool results with different contexts
C38_Witness ==
    /\ lastCheck.outcome = "passed"
    /\ lastCheck.calls = <<"ctx1", "ctx2">>
    /\ lastCheck.ctx = Some("ctx2")
    /\ bpTimers = {}

(***************************************************************************)
(* A check whose files change while its commands run                       *)
(***************************************************************************)
\* the environment also changes the size of a file and leaves its mtime
InitDiscard ==
    /\ globalFile = None
    /\ projectFile = None
    /\ env = NoEnv
    /\ fault = "none"
    /\ spanLimit = MaxSpans
    /\ call = NoCall
    /\ result = None
    /\ config = loadInitialConfig(globalFile, env)
    /\ InitEmpty
    /\ SettingsAsLoaded
    /\ ctxModel = None
    /\ bpFile = Some(Cfg_Shared)
    /\ state = createBackpressureState
    /\ worktree = [f \in Files |-> "clean"]
    /\ lastCheck = NoCheck
    /\ bpTimers = {}
    /\ burst = <<>>
    /\ bashEvents = NoBashEvents
    /\ hostInputs = [ctxs |-> {Ctx}, callIds |-> {"c1"}, resizable |-> {File_aT},
                     tools |-> BackpressureTools]

SpecDiscard == InitDiscard /\ [][NextBackpressure]_vars

\* the step is a check that ran its commands
CommandsRun == lastCheck'.outcome \in {"passed", "failed", "discarded"}

\* a candidate file got another mtime or size, or was removed, during it
ChangedDuringRun ==
    \E f \in Elements(lastCheck'.candidates) :
        \/ f \in lastCheck'.rewritten
        \/ f \in lastCheck'.resized
        \/ existsSync(worktree, f) # existsSync(worktree', f)

\* nothing is notified or sent, the counters are kept but for the files
\* that pruning drops, and the next check is scheduled for the files left
RunDiscarded ==
    /\ lastCheck'.outcome = "discarded"
    /\ lastCheck'.notified = <<>>
    /\ lastCheck'.sent = <<>>
    /\ state'.modificationCount = state.modificationCount
    /\ \A f \in Elements(state.touchedFiles) :
           SetHas(state'.modifiedFiles, f) => SetHas(state'.touchedFiles, f)
    /\ bpTimers' # {} <=> state'.modifiedFiles # <<>>
    /\ IsSome(state'.debounceTimer) <=> state'.modifiedFiles # <<>>
    /\ state'.pendingCtx = IF state'.modifiedFiles # <<>>
                           THEN lastCheck'.ctx ELSE None

\* C39: when the mtime, the size or the existence of a candidate file
\* changes while the commands of a check run, the run is discarded: no pass
\* or fail notification and no message to the agent, modificationCount and
\* touchedFiles are not reset, and a new check is scheduled exactly when
\* tracked files remain after the pruning.
C39_ChangedRunDiscarded ==
    [][CommandsRun /\ ChangedDuringRun => RunDiscarded]_vars

\* a run was discarded for a size change alone; a file is left, so the next
\* check is scheduled and the counters are as they were
C39_Witness ==
    /\ lastCheck.outcome = "discarded"
    /\ lastCheck.rewritten = {}
    /\ lastCheck.resized = {File_aT}
    /\ \A f \in Files : worktree[f] = "dirty"
    /\ Len(lastCheck.candidates) = 2
    /\ state.modificationCount = 2
    /\ Len(state.touchedFiles) = 2
    /\ bpTimers # {}

(***************************************************************************)
(* Bash results and the snapshots of their calls                           *)
(***************************************************************************)
\* two bash calls may await their results; no backpressure configuration
InitBash ==
    /\ globalFile = None
    /\ projectFile = None
    /\ env = NoEnv
    /\ fault = "none"
    /\ spanLimit = MaxSpans
    /\ call = NoCall
    /\ result = None
    /\ config = loadInitialConfig(globalFile, env)
    /\ InitEmpty
    /\ SettingsAsLoaded
    /\ ctxModel = None
    /\ bpFile = None
    /\ state = createBackpressureState
    /\ worktree = [f \in Files |-> "clean"]
    /\ lastCheck = NoCheck
    /\ bpTimers = {}
    /\ burst = <<>>
    /\ bashEvents = NoBashEvents
    /\ hostInputs = [ctxs |-> {Ctx}, callIds |-> {"c1", "c2"}, resizable |-> {},
                     tools |-> {"bash", "Bash"}]

SpecBash == InitBash /\ [][NextBackpressure]_vars

\* the table holds, for the calls awaiting their result, what git reported
\* as dirty when each of them was made
SnapshotsOfPendingCalls == state.bashStateByCallId = bashEvents.snapshots

\* the snapshot of the call of a result: empty when none was recorded
SnapshotOf(callId) ==
    IF callId \in DOMAIN bashEvents.snapshots
    THEN Elements(bashEvents.snapshots[callId]) ELSE {}

\* the files that the result finds dirty and its own call did not
NewFiles(bashResult) == Elements(bashResult.dirty) \ SnapshotOf(bashResult.callId)

\* a bash result tracks the files new since its own call, each once, and
\* takes the snapshot of its call, and no other, out of the table
ResultComparedWithOwnSnapshot ==
    IsSome(bashEvents'.result) =>
        LET bashResult == Get(bashEvents'.result)
        IN  /\ state'.modificationCount
                   = state.modificationCount + Cardinality(NewFiles(bashResult))
            /\ Elements(state'.modifiedFiles)
                   = (Elements(state.modifiedFiles) \ Elements(bashResult.deleted))
                     \cup NewFiles(bashResult)
            /\ DOMAIN state'.bashStateByCallId
                   = DOMAIN state.bashStateByCallId \ {bashResult.callId}
            /\ \A k \in DOMAIN state'.bashStateByCallId :
                   state'.bashStateByCallId[k] = state.bashStateByCallId[k]

\* C40: a bash tool_result is compared with the dirty files recorded at the
\* tool_call of the same call id, whatever other bash calls await their
\* results: exactly the files dirty now and not dirty then are tracked, the
\* entry of the call is removed, and a result without an entry is compared
\* with the empty set.
C40_ResultUsesOwnSnapshot ==
    []SnapshotsOfPendingCalls /\ [][ResultComparedWithOwnSnapshot]_vars

\* c2 was called with a clean tree and c1 with a.j dirty; the result of c1
\* arrives first, finds a.j and a.t dirty and tracks a.t alone
C40_Witness ==
    /\ bashEvents.result = Some([callId |-> "c1", dirty |-> PathOrder,
                                 deleted |-> <<>>])
    /\ DOMAIN bashEvents.snapshots = {"c2"}
    /\ bashEvents.snapshots["c2"] = <<>>
    /\ state.modifiedFiles = <<File_aT>>
    /\ state.modificationCount = 1

====
